---- MODULE Spec2Model ----
(***************************************************************************)
(* Rules engine of the two-player card game (src/engine.ts).  The match    *)
(* state GameState is the record assembled by S; every public operation    *)
(* (startTurn, advancePhase, endTurn, castFromHand, attack, resolveEffect) *)
(* is one action that runs the whole call, nested trigger and replacement  *)
(* chains included, as the synchronous engine does.                        *)
(***************************************************************************)
EXTENDS Integers, Sequences, FiniteSets, TLC

VARIABLES players, cards, turn, winner, preventEOT, preventPERM,
          controlRevertEOT, eventsTurn, eventsGame, triggerUseTurn,
          triggerUseGame, replUseTurn, replUseGame, log, nextId,
          turnOwner, pool, nOps

vars == <<players, cards, turn, winner, preventEOT, preventPERM,
          controlRevertEOT, eventsTurn, eventsGame, triggerUseTurn,
          triggerUseGame, replUseTurn, replUseGame, log, nextId,
          turnOwner, pool, nOps>>

(* ------------------------------ bounds -------------------------------- *)
MaxOps == 4
MaxTurn == 2

(* --------------------- CORE_RULES (src/core-rules.ts) ------------------ *)
phases == <<"UPKEEP", "MAIN", "COMBAT", "END">>
drawOnTurnStart == TRUE
startingLife == 20
startingHand == 5
maxHandSize == 10
illegalTargetFizzle == TRUE
lethalAt == 0
damagePersistsTurn == TRUE
tokensLeaveTo == "GY"
attackerTargets == "PlayerOrUnit"
summoningSickness == TRUE
lifeZeroLoss == TRUE
drawFromEmptyLoss == TRUE
perTurnGainBase == 1
maxPool == -1
carryOver == FALSE
payment == "GenericOnly"
colorsPolicy == "DeckOnly"

(* ------------------------------ utilities ----------------------------- *)
PLAYER_ZONES == <<"LIB", "HAND", "BF", "GY", "EXILE">>
NoId == 0
NoPlayer == -1
Opp(p) == 1 - p
Min(a, b) == IF a < b THEN a ELSE b
Max(a, b) == IF a > b THEN a ELSE b

EmptyMap == [x \in {} |-> 0]
Get(m, k) == IF k \in DOMAIN m THEN m[k] ELSE 0
Put(m, k, v) == [x \in (DOMAIN m) \cup {k} |-> IF x = k THEN v ELSE m[x]]

RECURSIVE Flatten(_)
Flatten(ss) == IF ss = <<>> THEN <<>> ELSE Head(ss) \o Flatten(Tail(ss))

Take(arr, n) == SubSeq(arr, 1, Min(Max(n, 0), Len(arr)))
Contains(arr, x) == \E i \in 1..Len(arr) : arr[i] = x
IndexOf(arr, x) ==
  IF Contains(arr, x)
  THEN CHOOSE i \in 1..Len(arr) : arr[i] = x /\ \A j \in 1..(i - 1) : arr[j] # x
  ELSE 0
Splice(arr, x) ==
  LET i == IndexOf(arr, x)
  IN IF i = 0 THEN arr ELSE SubSeq(arr, 1, i - 1) \o SubSeq(arr, i + 1, Len(arr))


Line(tag, name, a, b) == [tag |-> tag, name |-> name, a |-> a, b |-> b]
pushLog(st, l) == [st EXCEPT !.log = Append(@, l)]

getZoneArray(p, zone) ==
  CASE zone = "LIB" -> p.library
    [] zone = "HAND" -> p.hand
    [] zone = "BF" -> p.battlefield
    [] zone = "GY" -> p.graveyard
    [] zone = "EXILE" -> p.exile

setZoneArray(p, zone, arr) ==
  CASE zone = "LIB" -> [p EXCEPT !.library = arr]
    [] zone = "HAND" -> [p EXCEPT !.hand = arr]
    [] zone = "BF" -> [p EXCEPT !.battlefield = arr]
    [] zone = "GY" -> [p EXCEPT !.graveyard = arr]
    [] zone = "EXILE" -> [p EXCEPT !.exile = arr]

(* remove the first occurrence of id from every zone list of player p *)
removeFromAllZones(p, id) ==
  [p EXCEPT !.library = Splice(@, id), !.hand = Splice(@, id),
            !.battlefield = Splice(@, id), !.graveyard = Splice(@, id),
            !.exile = Splice(@, id)]

hasKeyword(rc, k) == k \in rc.card.keywords

(* ----------------------- card and effect syntax ----------------------- *)
None == [kind |-> "None"]
PTrue == [kind |-> "True"]
Sel(owner, zone, max, filter) ==
  [owner |-> owner, zone |-> zone, max |-> max, filter |-> filter]
Const(n) == [kind |-> "Const", n |-> n]

Card(name, type, generic, hasStats, atk, hp, keywords, tags, cast, triggers, continuous, replacements) ==
  [name |-> name, type |-> type, cost |-> generic, hasStats |-> hasStats,
   atk |-> atk, hp |-> hp, keywords |-> keywords, tags |-> tags,
   colors |-> <<>>, cast |-> cast, triggers |-> triggers,
   continuous |-> continuous, replacements |-> replacements]

NoTransform == [set |-> FALSE, atk |-> 0, hp |-> 0]

RuntimeCard(owner, card, zone) ==
  [owner |-> owner, card |-> card, zone |-> zone, damage |-> 0,
   turnEntered |-> -1, isToken |-> FALSE, tapped |-> FALSE,
   counters |-> EmptyMap, bonusAtkPerm |-> 0, bonusHpPerm |-> 0,
   bonusAtkEOT |-> 0, bonusHpEOT |-> 0, transformPerm |-> NoTransform,
   transformEOT |-> NoTransform]

(* the GameState aggregate *)
S == [players |-> players, cards |-> cards, turn |-> turn, winner |-> winner,
      preventEOT |-> preventEOT, preventPERM |-> preventPERM,
      controlRevertEOT |-> controlRevertEOT, eventsTurn |-> eventsTurn,
      eventsGame |-> eventsGame, triggerUseTurn |-> triggerUseTurn,
      triggerUseGame |-> triggerUseGame, replUseTurn |-> replUseTurn,
      replUseGame |-> replUseGame, log |-> log, nextId |-> nextId]


(* ------------------- evaluator (pure, no mutation) -------------------- *)
HasCard(st, id) == id \in DOMAIN st.cards

RECURSIVE isLegalTarget(_, _, _, _, _), matchesPredicate(_, _, _, _, _),
          evalMetric(_, _, _, _, _), matchesAll(_, _, _, _, _),
          matchesSome(_, _, _, _, _)

listContinuousEffects(st) ==
  Flatten([i \in 1..(st.nextId - 1) |->
             IF st.cards[i].zone # "BF" THEN <<>>
             ELSE [k \in 1..Len(st.cards[i].card.continuous) |->
                     [host |-> i, eff |-> st.cards[i].card.continuous[k]]]])

RECURSIVE sumBuffs(_, _)
sumBuffs(ces, applies) ==
  IF ces = <<>> THEN [atk |-> 0, hp |-> 0]
  ELSE IF Head(ces).eff.kind = "StaticBuff" /\ Head(applies)
  THEN [atk |-> Head(ces).eff.atk + sumBuffs(Tail(ces), Tail(applies)).atk,
        hp |-> Head(ces).eff.hp + sumBuffs(Tail(ces), Tail(applies)).hp]
  ELSE sumBuffs(Tail(ces), Tail(applies))

buffApplies(st, targetId, ces) ==
  [k \in 1..Len(ces) |->
     ces[k].eff.kind = "StaticBuff"
     /\ isLegalTarget(st, st.cards[ces[k].host].owner, ces[k].eff.target,
                      targetId, ces[k].host)]

getStaticBuffBonus(st, targetId) ==
  sumBuffs(listContinuousEffects(st),
           buffApplies(st, targetId, listContinuousEffects(st)))

(* transform, else printed stats, plus the static buffs *)
coreStats(rc, buff) ==
  IF rc.transformEOT.set
  THEN [atk |-> rc.transformEOT.atk + buff.atk, hp |-> rc.transformEOT.hp + buff.hp]
  ELSE IF rc.transformPerm.set
  THEN [atk |-> rc.transformPerm.atk + buff.atk, hp |-> rc.transformPerm.hp + buff.hp]
  ELSE [atk |-> (IF rc.card.hasStats THEN rc.card.atk ELSE 0) + buff.atk,
        hp |-> (IF rc.card.hasStats THEN rc.card.hp ELSE 0) + buff.hp]

getEffectiveBaseStats(st, id) == coreStats(st.cards[id], getStaticBuffBonus(st, id))

withBonus(rc, stats) ==
  [atk |-> stats.atk + rc.bonusAtkPerm + rc.bonusAtkEOT,
   hp |-> stats.hp + rc.bonusHpPerm + rc.bonusHpEOT]

(* effective ATK and maximum HP with both numeric buff layers *)
effStats(st, id) == withBonus(st.cards[id], getEffectiveBaseStats(st, id))
effAtk(st, id) == effStats(st, id).atk
effHpMax(st, id) == effStats(st, id).hp

cardStat(rc, stat, stats) ==
  IF stat = "ATK" THEN stats.atk ELSE Max(0, stats.hp - rc.damage)

evalMetric(st, controller, selfId, targetId, m) ==
  CASE m.kind = "Const" -> m.n
    [] m.kind = "Life" ->
         st.players[IF m.who = "SELF" THEN controller ELSE Opp(controller)].life
    [] m.kind = "BoardCount" ->
         LET p == st.players[IF m.who = "SELF" THEN controller ELSE Opp(controller)]
         IN IF m.zone = "STACK" THEN 0
            ELSE LET ids == getZoneArray(p, IF m.zone = "NONE" THEN "BF" ELSE m.zone)
                 IN IF m.tag = "" THEN Len(ids)
                    ELSE Cardinality({i \in 1..Len(ids) :
                           HasCard(st, ids[i]) /\ m.tag \in st.cards[ids[i]].card.tags})
    [] m.kind = "CardStat" ->
         LET id == IF m.of = "Self" THEN selfId ELSE targetId
         IN IF id = NoId \/ ~HasCard(st, id) THEN 0
            ELSE IF ~st.cards[id].card.hasStats THEN 0
            ELSE cardStat(st.cards[id], m.stat, effStats(st, id))

evalValue(st, controller, selfId, targetId, v) ==
  CASE v.kind = "Const" -> v.n
    [] v.kind = "Clamp" ->
         Min(v.max, Max(v.min, evalMetric(st, controller, selfId, targetId, v.of)))

matchesAll(st, controller, selfId, targetId, items) ==
  items = <<>> \/ (matchesPredicate(st, controller, selfId, targetId, Head(items))
                   /\ matchesAll(st, controller, selfId, targetId, Tail(items)))

matchesSome(st, controller, selfId, targetId, items) ==
  items # <<>> /\ (matchesPredicate(st, controller, selfId, targetId, Head(items))
                   \/ matchesSome(st, controller, selfId, targetId, Tail(items)))

compare(op, v) ==
  CASE op = ">=" -> v[1] >= v[2]
    [] op = ">" -> v[1] > v[2]
    [] op = "<=" -> v[1] <= v[2]
    [] op = "<" -> v[1] < v[2]
    [] op = "==" -> v[1] = v[2]
    [] op = "!=" -> v[1] # v[2]

matchesPredicate(st, controller, selfId, targetId, pred) ==
  LET subjId == IF pred.in = "Self" THEN selfId ELSE targetId
      has == subjId # NoId /\ HasCard(st, subjId)
  IN CASE pred.kind = "None" -> TRUE
       [] pred.kind = "True" -> TRUE
       [] pred.kind = "HasTag" -> has /\ pred.tag \in st.cards[subjId].card.tags
       [] pred.kind = "HasName" -> has /\ st.cards[subjId].card.name = pred.name
       [] pred.kind = "IsToken" -> has /\ st.cards[subjId].isToken
       [] pred.kind = "WasSummonedThisTurn" ->
            has /\ st.cards[subjId].turnEntered = st.turn.number
       [] pred.kind = "HasCounter" ->
            has /\ Get(st.cards[subjId].counters, pred.counter) >= pred.atLeast
       [] pred.kind = "ControllerIs" ->
            has /\ st.cards[subjId].owner
                     = (IF pred.who = "SELF" THEN controller ELSE Opp(controller))
       [] pred.kind = "EventOccurred" ->
            LET whoPid == IF pred.who = "OPP" THEN Opp(controller) ELSE controller
                key == <<pred.event, whoPid>>
            IN (IF pred.since = "TURN" THEN Get(st.eventsTurn, key)
                ELSE Get(st.eventsGame, key)) >= pred.atLeast
       [] pred.kind = "Cmp" ->
            compare(pred.op, [i \in 1..2 |->
                               evalMetric(st, controller, selfId, targetId,
                                          IF i = 1 THEN pred.left ELSE pred.right)])
       [] pred.kind = "And" -> matchesAll(st, controller, selfId, targetId, pred.items)
       [] pred.kind = "Or" -> matchesSome(st, controller, selfId, targetId, pred.items)
       [] pred.kind = "Not" -> ~matchesPredicate(st, controller, selfId, targetId, pred.item)

(* variant: Hexproof is not consulted *)
isLegalTarget_noHexproof(st, controller, sel, id, selfId) ==
  IF ~HasCard(st, id) THEN FALSE
  ELSE /\ (sel.owner # "ANY"
           => st.cards[id].owner = (IF sel.owner = "SELF" THEN controller
                                    ELSE Opp(controller)))
       /\ st.cards[id].zone = (IF sel.zone = "NONE" THEN "BF" ELSE sel.zone)
       /\ (sel.filter.kind # "None"
             => matchesPredicate(st, controller, selfId, id, sel.filter))

isLegalTarget(st, controller, sel, id, selfId) ==
  IF ~HasCard(st, id) THEN FALSE
  ELSE LET rc == st.cards[id]
           expectOwner == IF sel.owner = "SELF" THEN controller ELSE Opp(controller)
       IN /\ (sel.owner # "ANY" => rc.owner = expectOwner)
          /\ rc.zone = (IF sel.zone = "NONE" THEN "BF" ELSE sel.zone)
          /\ (sel.filter.kind # "None"
                => matchesPredicate(st, controller, selfId, id, sel.filter))
          /\ ~(hasKeyword(rc, "Hexproof") /\ rc.owner # controller)

(* the zone lists searched: the controller's first, then the opponent's *)
candidateIds(st, controller, sel) ==
  Flatten([k \in 1..2 |->
    IF sel.owner = "ANY" \/ (sel.owner = "SELF") = (k = 1)
    THEN getZoneArray(st.players[IF k = 1 THEN controller ELSE Opp(controller)],
                      IF sel.zone = "NONE" THEN "BF" ELSE sel.zone)
    ELSE <<>>])

selectTargets(st, controller, sel) ==
  IF sel.zone = "STACK" THEN <<>>
  ELSE Take(SelectSeq(candidateIds(st, controller, sel),
                      LAMBDA id : sel.filter.kind = "None"
                         \/ matchesPredicate(st, controller, NoId, id, sel.filter)),
            IF sel.max = -1 THEN Len(candidateIds(st, controller, sel)) ELSE sel.max)


(* --------------------- planner (pure, no mutation) -------------------- *)
Ctx(subjectId, subjectPlayer, sourceId, forPlayer) ==
  [subjectId |-> subjectId, subjectPlayer |-> subjectPlayer,
   sourceId |-> sourceId, forPlayer |-> forPlayer]
SubjectCtx(id) == Ctx(id, NoPlayer, NoId, NoPlayer)

LogOp(l) == [kind |-> "Log", msg |-> l]
Fizzle(name) == <<LogOp(Line("fizzles", name, 0, 0))>>
PlayerOf(controller, who) == IF who = "SELF" THEN controller ELSE Opp(controller)

(* selectTargets writes a log line for a STACK selector while the plan is  *)
(* being computed; the plan carries that write as a PlanWrite entry        *)
StackWrite(sel) ==
  IF sel.zone = "STACK"
  THEN <<[kind |-> "PlanWrite",
          msg |-> Line("Selector with zone=STACK unsupported", "", 0, 0)]>>
  ELSE <<>>

(* the selections made for a targeted effect: none when targets are chosen; *)
(* CopyStats selects its source, and its destination once the source is     *)
(* found valid                                                              *)
selectWrites(eff, chosenTargets, plan) ==
  IF eff.kind = "CopyStats"
  THEN StackWrite(eff.from)
       \o (IF plan[1].kind = "Log"
              /\ plan[1].msg.tag \in {"CopyStats: no valid source",
                                      "CopyStats: source lacks stats"}
           THEN <<>> ELSE StackWrite(eff.to))
  ELSE IF Len(chosenTargets) > 0 THEN <<>> ELSE StackWrite(eff.target)

withWrites(eff, chosenTargets, plan) == selectWrites(eff, chosenTargets, plan) \o plan

(* the state the planner leaves, and the operations of a plan *)
afterPlanning(st, plan) ==
  LET w == SelectSeq(plan, LAMBDA op : op.kind = "PlanWrite")
  IN [st EXCEPT !.log = @ \o [i \in 1..Len(w) |-> w[i].msg]]
plannedOps(plan) == SelectSeq(plan, LAMBDA op : op.kind # "PlanWrite")

(* variant: chosen targets are taken as given, only a selection is checked *)
resolveTargets_unchecked(st, controller, sourceId, sel, chosenTargets) ==
  IF Len(chosenTargets) > 0 THEN chosenTargets
  ELSE SelectSeq(selectTargets(st, controller, sel),
                 LAMBDA id : isLegalTarget(st, controller, sel, id, sourceId))

(* chosen targets if given, else the selection; then the legality re-check *)
resolveTargets(st, controller, sourceId, sel, chosenTargets) ==
  SelectSeq(IF Len(chosenTargets) > 0 THEN chosenTargets
            ELSE selectTargets(st, controller, sel),
            LAMBDA id : isLegalTarget(st, controller, sel, id, sourceId))

TargetedKinds ==
  {"DealDamage", "PreventDamage", "Heal", "AddCounter", "RemoveCounter", "Buff",
   "Move", "ChangeController", "Transform"}

(* the operation of an effect with targets, once targets and value are known *)
planTargeted(controller, sourceId, eff, targets, value) ==
  IF Len(targets) = 0 /\ illegalTargetFizzle THEN Fizzle(eff.kind)
  ELSE CASE eff.kind = "DealDamage" ->
              <<[kind |-> "DealDamageMany", targets |-> targets,
                 amount |-> value, sourceId |-> sourceId]>>
         [] eff.kind = "PreventDamage" ->
              <<[kind |-> "PreventDamageMany", targets |-> targets, amount |-> value,
                 duration |-> IF eff.duration = "EOT" THEN "EOT" ELSE "PERM"]>>
         [] eff.kind = "Heal" ->
              <<[kind |-> "HealMany", targets |-> targets, amount |-> value]>>
         [] eff.kind = "AddCounter" ->
              <<[kind |-> "AddCounterMany", targets |-> targets,
                 counter |-> eff.counter, n |-> Max(0, value), max |-> eff.max]>>
         [] eff.kind = "RemoveCounter" ->
              <<[kind |-> "RemoveCounterMany", targets |-> targets,
                 counter |-> eff.counter, n |-> Max(0, value)]>>
         [] eff.kind = "Buff" ->
              <<[kind |-> "BuffMany", targets |-> targets, atkDelta |-> eff.atk,
                 hpDelta |-> eff.hp, duration |-> "EOT"]>>
         [] eff.kind = "Move" ->
              <<[kind |-> "MoveMany", targets |-> targets, to |-> eff.to]>>
         [] eff.kind = "ChangeController" ->
              <<[kind |-> "ChangeControllerMany", targets |-> targets,
                 newOwner |-> PlayerOf(controller, eff.newController),
                 duration |-> "EOT"]>>
         [] eff.kind = "Transform" ->
              <<[kind |-> "TransformMany", targets |-> targets, into |-> eff.into,
                 duration |-> IF eff.duration = "EOT" THEN "EOT" ELSE "PERM"]>>

(* the value of an effect is evaluated against the first target *)
planWithTargets(st, controller, sourceId, eff, targets) ==
  planTargeted(controller, sourceId, eff, targets,
               evalValue(st, controller, sourceId,
                         IF Len(targets) = 0 THEN NoId ELSE targets[1],
                         IF eff.kind \in {"AddCounter", "RemoveCounter"}
                         THEN eff.n ELSE eff.amount))

copyStatsOp(eff, toIds, stats) ==
  <<[kind |-> "CopyStatsToMany", targets |-> toIds,
     toAtk |-> Max(eff.clamp.atkMin, Min(eff.clamp.atkMax, stats.atk)),
     toHp |-> Max(eff.clamp.hpMin, Min(eff.clamp.hpMax, stats.hp)),
     duration |-> eff.duration]>>

planCopyStats(st, eff, fromIds, toIds) ==
  IF Len(fromIds) = 0 THEN <<LogOp(Line("CopyStats: no valid source", "", 0, 0))>>
  ELSE IF ~st.cards[fromIds[1]].card.hasStats
  THEN <<LogOp(Line("CopyStats: source lacks stats", "", 0, 0))>>
  ELSE IF Len(toIds) = 0 /\ illegalTargetFizzle THEN Fizzle("CopyStats")
  ELSE copyStatsOp(eff, toIds, effStats(st, fromIds[1]))

(* an effect whose selectors have been resolved to target lists *)
planResolved(st, controller, sourceId, eff, lists) ==
  IF eff.kind = "CopyStats" THEN planCopyStats(st, eff, lists[1], lists[2])
  ELSE planWithTargets(st, controller, sourceId, eff, lists[1])

RECURSIVE planEffect(_, _, _, _, _)
planEffect(st, controller, sourceId, eff, chosenTargets) ==
  CASE eff.kind = "Move" /\ eff.to = "STACK" ->
         <<LogOp(Line("Move to STACK unsupported", "", 0, 0))>>
    [] (eff.kind \in TargetedKinds /\ ~(eff.kind = "Move" /\ eff.to = "STACK"))
       \/ eff.kind = "CopyStats" ->
         withWrites(eff, chosenTargets,
           planResolved(st, controller, sourceId, eff,
             [i \in 1..(IF eff.kind = "CopyStats" THEN 2 ELSE 1) |->
                resolveTargets(st, controller, sourceId,
                               IF eff.kind # "CopyStats" THEN eff.target
                               ELSE IF i = 1 THEN eff.from ELSE eff.to,
                               IF eff.kind # "CopyStats" THEN chosenTargets ELSE <<>>)]))
    [] eff.kind \in {"Draw", "Mill"} ->
         <<[kind |-> eff.kind, pid |-> PlayerOf(controller, eff.who),
            n |-> evalValue(st, controller, sourceId, NoId, eff.n)]>>
    [] eff.kind = "CreateToken" ->
         <<[kind |-> "CreateToken", pid |-> PlayerOf(controller, eff.who),
            atk |-> eff.atk, hp |-> eff.hp, tags |-> eff.tags]>>
    [] eff.kind \in {"Conditional", "Case"} ->
         LET hits == SelectSeq(IF eff.kind = "Case" THEN eff.branches
                               ELSE <<[when |-> eff.if, do |-> eff.then]>>,
                       LAMBDA br :
                         matchesPredicate(st, controller, sourceId, sourceId, br.when))
             inner == IF Len(hits) > 0 THEN hits[1].do ELSE eff.else
         IN IF inner.kind = "None" THEN <<>>
            ELSE planEffect(st, controller, sourceId, inner, chosenTargets)
    [] eff.kind = "ForEach" ->
         LET among == Take(selectTargets(st, controller, eff.among), eff.maxTargets)
         IN StackWrite(eff.among)
            \o Flatten([i \in 1..Len(among) |->
                         planEffect(st, controller, among[i], eff.body, <<among[i]>>)])
    [] eff.kind \in {"Sequence", "Repeat"} ->
         LET steps == IF eff.kind = "Sequence" THEN eff.steps
                      ELSE [i \in 1..eff.times |-> eff.body]
         IN Flatten([i \in 1..Len(steps) |->
                      planEffect(st, controller, sourceId, steps[i], chosenTargets)])
    [] eff.kind = "NoOp" -> <<>>

(* the triggers that fire for an event, in card order then definition order *)
planTriggers(st, when, ctx) ==
  LET OfDef(id, i) ==
        LET rc == st.cards[id]
            t == rc.card.triggers[i]
            key == <<id, i - 1>>
            used == IF t.limit.per = "TURN" THEN Get(st.triggerUseTurn, key)
                    ELSE Get(st.triggerUseGame, key)
            condTarget == IF ctx.subjectId # NoId THEN ctx.subjectId
                          ELSE IF ctx.sourceId # NoId THEN ctx.sourceId ELSE id
        IN IF t.when # when THEN <<>>
           ELSE IF used >= t.limit.times THEN <<>>
           ELSE IF ~(rc.zone = "BF" \/ id = ctx.subjectId) THEN <<>>
           ELSE IF ~matchesPredicate(st, rc.owner, id, condTarget, t.condition) THEN <<>>
           ELSE <<[kind |-> "IncTriggerUsage", key |-> key, per |-> t.limit.per]>>
                \o planEffect(st, rc.owner, id, t.effect,
                              IF ctx.subjectId # NoId THEN <<ctx.subjectId>> ELSE <<>>)
      OfCard(id) == Flatten([i \in 1..Len(st.cards[id].card.triggers) |-> OfDef(id, i)])
  IN Flatten([id \in 1..(st.nextId - 1) |-> OfCard(id)])

listActiveReplacements(st) ==
  Flatten([id \in 1..(st.nextId - 1) |->
             IF st.cards[id].zone # "BF" THEN <<>>
             ELSE [k \in 1..Len(st.cards[id].card.replacements) |->
                     [host |-> id, repl |-> st.cards[id].card.replacements[k],
                      index |-> k - 1]]])

replUsed(st, c) ==
  IF c.repl.limit.per = "TURN" THEN Get(st.replUseTurn, <<c.host, c.index>>)
  ELSE Get(st.replUseGame, <<c.host, c.index>>)

replacementOps(st, c, line, chosenTargets) ==
  <<LogOp(line),
    [kind |-> "IncReplacementUsage", key |-> <<c.host, c.index>>,
     per |-> c.repl.limit.per]>>
  \o planEffect(st, st.cards[c.host].owner, c.host, c.repl.instead, chosenTargets)

(* variant: the usage test is off by one *)
replLive_offByOne(st, c) == ~(replUsed(st, c) > c.repl.limit.times)

(* a replacement whose usage limit is not yet reached *)
replLive(st, c) == ~(replUsed(st, c) >= c.repl.limit.times)

(* the replacements that apply to a subject, in card order *)
replacementsForSubject(st, when, subjectId) ==
  SelectSeq(listActiveReplacements(st), LAMBDA c :
    /\ c.repl.when = when
    /\ replLive(st, c)
    /\ isLegalTarget(st, st.cards[c.host].owner, c.repl.subject, subjectId, c.host))

(* the WouldDraw replacements that apply to a player's draw *)
wouldDrawReplacements(st, who) ==
  SelectSeq(listActiveReplacements(st), LAMBDA c :
    /\ c.repl.when = "WouldDraw"
    /\ (IF c.repl.subject.owner = "OPP" THEN Opp(st.cards[c.host].owner)
        ELSE st.cards[c.host].owner) = who
    /\ replLive(st, c))

(* variant: the last matching replacement applies *)
planFirst_last(st, live, tag, who, chosenTargets) ==
  IF Len(live) = 0 THEN <<>>
  ELSE replacementOps(st, live[Len(live)],
                      Line(tag, st.cards[live[Len(live)].host].card.name, who, 0),
                      chosenTargets)

(* only the first matching replacement applies *)
planFirst(st, live, tag, who, chosenTargets) ==
  IF Len(live) = 0 THEN <<>>
  ELSE replacementOps(st, Head(live),
                      Line(tag, st.cards[Head(live).host].card.name, who, 0),
                      chosenTargets)

(* planReplacementForSubject, and planWouldDrawReplacement for WouldDraw *)
planReplacement(st, when, subjectId, who) ==
  planFirst(st,
            IF when = "WouldDraw" THEN wouldDrawReplacements(st, who)
            ELSE replacementsForSubject(st, when, subjectId),
            IF when = "WouldDraw" THEN "Replacement (WouldDraw) applies"
            ELSE "Replacement applies",
            IF when = "WouldDraw" THEN who ELSE 0,
            IF when = "WouldDraw" THEN <<>> ELSE <<subjectId>>)


(* ----------------- applier (the only mutating surface) ---------------- *)
PName(pid) == IF pid = 0 THEN "P1" ELSE "P2"

RECURSIVE forEachId(_, _, _)
forEachId(Op(_, _), st, ids) ==
  IF Len(ids) = 0 THEN st ELSE forEachId(Op, Op(st, Head(ids)), Tail(ids))

incEvent(st, event, who) ==
  [st EXCEPT !.eventsTurn = Put(@, <<event, who>>, Get(@, <<event, who>>) + 1),
             !.eventsGame = Put(@, <<event, who>>, Get(@, <<event, who>>) + 1)]

HasRevert(st, id) == \E i \in 1..Len(st.controlRevertEOT) : st.controlRevertEOT[i][1] = id

(* variant: the id is not removed from the old owner's zone lists *)
transferControl_keepsOld(st, id, newOwner) ==
  IF ~HasCard(st, id) THEN st
  ELSE IF st.cards[id].owner = newOwner THEN st
  ELSE LET rc == st.cards[id]
           to == setZoneArray(st.players[newOwner], rc.zone,
                              Append(getZoneArray(st.players[newOwner], rc.zone), id))
       IN [st EXCEPT !.players[newOwner] = to, !.cards[id].owner = newOwner]

transferControl(st, id, newOwner) ==
  IF ~HasCard(st, id) THEN st
  ELSE IF st.cards[id].owner = newOwner THEN st
  ELSE LET rc == st.cards[id]
           from == removeFromAllZones(st.players[rc.owner], id)
           to == setZoneArray(st.players[newOwner], rc.zone,
                              Append(getZoneArray(st.players[newOwner], rc.zone), id))
       IN [st EXCEPT !.players[rc.owner] = from, !.players[newOwner] = to,
                     !.cards[id].owner = newOwner]

(* variant: the revert entry is overwritten by every later change *)
changeController_overwrites(st, id, newOwner, duration) ==
  IF ~HasCard(st, id) THEN st
  ELSE transferControl(
         IF duration = "EOT"
         THEN [st EXCEPT !.controlRevertEOT =
                 SelectSeq(@, LAMBDA e : e[1] # id) \o <<<<id, st.cards[id].owner>>>>]
         ELSE st,
         id, newOwner)

(* one target of ChangeControllerMany: record the first owner, transfer *)
changeController(st, id, newOwner, duration) ==
  IF ~HasCard(st, id) THEN st
  ELSE transferControl(
         IF duration = "EOT" /\ ~HasRevert(st, id)
         THEN [st EXCEPT !.controlRevertEOT = Append(@, <<id, st.cards[id].owner>>)]
         ELSE st,
         id, newOwner)

checkPlayerDeath(st) ==
  IF ~lifeZeroLoss THEN st
  ELSE forEachId(LAMBDA s1, pid :
                   IF s1.players[pid].life <= 0
                   THEN pushLog([s1 EXCEPT !.winner = Opp(pid)],
                                Line("has 0 or less life and loses", PName(pid), 0, 0))
                   ELSE s1,
                 st, <<0, 1>>)

healPermanent(st, id, n) ==
  IF ~HasCard(st, id) THEN st
  ELSE IF ~st.cards[id].card.hasStats THEN st
  ELSE LET d == Max(0, st.cards[id].damage - n)
       IN pushLog([st EXCEPT !.cards[id].damage = d],
                  Line("heals", st.cards[id].card.name, n, d))

RECURSIVE applyOps(_, _), applyPlan(_, _), applyOperation(_, _), fireTriggers(_, _, _),
          moveCard(_, _, _), topDraw(_, _, _), dealDamageToPermanent(_, _, _, _),
          destroyPermanent(_, _), checkLethalAfterStatChange(_, _),
          applyReplacement(_, _, _), applyWouldDrawReplacement(_, _)

(* the loop over a plan: each operation is applied to the state the one   *)
(* before it left, which exists (its id counter is positive) before the   *)
(* next operation is looked at                                            *)
applyOps(st, ops) ==
  IF Len(ops) = 0 \/ st.nextId < 1 THEN st
  ELSE applyOps(applyOperation(st, Head(ops)), Tail(ops))

(* plan, then apply: the planner's writes are in the log before the first *)
(* operation of the plan is applied                                       *)
applyPlan(st, plan) == applyOps(afterPlanning(st, plan), plannedOps(plan))

(* the same plan-and-apply as the FireTriggers operation *)
fireTriggers(st, when, ctx) ==
  applyOperation(st, [kind |-> "FireTriggers", when |-> when, ctx |-> ctx])

(* the planned replacement is applied operation by operation *)
applyReplacement(st, when, subjectId) ==
  applyOperation(st, [kind |-> "Replace", when |-> when, subjectId |-> subjectId,
                      who |-> NoPlayer])

applyWouldDrawReplacement(st, who) ==
  applyOperation(st, [kind |-> "Replace", when |-> "WouldDraw", subjectId |-> NoId,
                      who |-> who])

(* variant: a token goes where the caller asked *)
moveCard_asRequested(st, cardId, toZone) ==
  IF ~HasCard(st, cardId) THEN st
  ELSE LET rc == st.cards[cardId]
           out == removeFromAllZones(st.players[rc.owner], cardId)
           p == setZoneArray(out, toZone, Append(getZoneArray(out, toZone), cardId))
           st1 == [st EXCEPT !.players[rc.owner] = p, !.cards[cardId].zone = toZone]
       IN IF toZone = "BF"
          THEN fireTriggers(
                 fireTriggers([st1 EXCEPT !.cards[cardId].tapped = FALSE],
                              "OnEnter", SubjectCtx(cardId)),
                 "OnNameMatched", SubjectCtx(cardId))
          ELSE st1

moveCard(st, cardId, toZone) ==
  IF ~HasCard(st, cardId) THEN st
  ELSE LET rc == st.cards[cardId]
           dest == IF rc.isToken /\ rc.zone = "BF" /\ toZone # "BF"
                   THEN tokensLeaveTo ELSE toZone
           out == removeFromAllZones(st.players[rc.owner], cardId)
           p == setZoneArray(out, dest, Append(getZoneArray(out, dest), cardId))
           st1 == [st EXCEPT !.players[rc.owner] = p, !.cards[cardId].zone = dest]
       IN IF dest = "BF"
          THEN fireTriggers(
                 fireTriggers([st1 EXCEPT !.cards[cardId].tapped = FALSE],
                              "OnEnter", SubjectCtx(cardId)),
                 "OnNameMatched", SubjectCtx(cardId))
          ELSE st1

(* variant: the loop goes on after a draw from an empty library *)
drawOne_continues(st, who, n, handled) ==
  IF handled THEN topDraw(applyWouldDrawReplacement(st, who), who, n - 1)
  ELSE IF Len(st.players[who].library) = 0
  THEN topDraw(IF drawFromEmptyLoss
               THEN pushLog([st EXCEPT !.winner = Opp(who)],
                            Line("cannot draw and loses", PName(who), 0, 0))
               ELSE st,
               who, n - 1)
  ELSE topDraw(fireTriggers(fireTriggers(
                 pushLog(moveCard([st EXCEPT !.players[who].library =
                                     SubSeq(@, 1, Len(@) - 1)],
                                  st.players[who].library[Len(st.players[who].library)],
                                  "HAND"),
                         Line("draws a card", PName(who), 0, 0)),
                 "OnDraw",
                 Ctx(st.players[who].library[Len(st.players[who].library)], who,
                     NoId, NoPlayer)),
                 "OnNameMatched",
                 Ctx(st.players[who].library[Len(st.players[who].library)], who,
                     NoId, NoPlayer)),
               who, n - 1)

drawOne(st, who, n, handled) ==
  LET lib == st.players[who].library
      id == lib[Len(lib)]
      popped == [st EXCEPT !.players[who].library = SubSeq(lib, 1, Len(lib) - 1)]
      drawn == pushLog(moveCard(popped, id, "HAND"), Line("draws a card", PName(who), 0, 0))
      ctx == Ctx(id, who, NoId, NoPlayer)
  IN IF handled THEN topDraw(applyWouldDrawReplacement(st, who), who, n - 1)
     ELSE IF Len(lib) = 0
     THEN IF drawFromEmptyLoss
          THEN pushLog([st EXCEPT !.winner = Opp(who)],
                       Line("cannot draw and loses", PName(who), 0, 0))
          ELSE st
     ELSE topDraw(fireTriggers(fireTriggers(drawn, "OnDraw", ctx), "OnNameMatched", ctx),
                  who, n - 1)

topDraw(st, who, n) ==
  IF n <= 0 THEN st ELSE drawOne(st, who, n, Len(wouldDrawReplacements(st, who)) > 0)

die(st, id, handled) ==
  IF handled THEN applyReplacement(st, "WouldDie", id)
  ELSE moveCard(fireTriggers(incEvent(pushLog(st, Line("dies", st.cards[id].card.name, 0, 0)),
                                      "UnitDied", st.cards[id].owner),
                             "OnDeath", SubjectCtx(id)),
                id, IF st.cards[id].isToken THEN tokensLeaveTo ELSE "GY")

destroyPermanent(st, id) ==
  IF ~HasCard(st, id) THEN st
  ELSE IF st.cards[id].zone # "BF" THEN st
  ELSE die(st, id, Len(replacementsForSubject(st, "WouldDie", id)) > 0)

(* variant: the Indestructible keyword is not consulted *)
lethalCheck_destroys(st, id, hpMax, line) ==
  IF (hpMax - st.cards[id].damage) <= lethalAt THEN destroyPermanent(st, id) ELSE st

(* the lethal check shared by damage and stat changes *)
lethalCheck(st, id, hpMax, line) ==
  IF (hpMax - st.cards[id].damage) <= lethalAt
  THEN IF hasKeyword(st.cards[id], "Indestructible")
       THEN pushLog(st, Line(line, st.cards[id].card.name, 0, 0))
       ELSE destroyPermanent(st, id)
  ELSE st

lifelink(st, sourceId, amount) ==
  IF sourceId # NoId /\ HasCard(st, sourceId) /\ hasKeyword(st.cards[sourceId], "Lifelink")
  THEN LET ctrl == st.cards[sourceId].owner
           life == st.players[ctrl].life + amount
       IN pushLog([st EXCEPT !.players[ctrl].life = life],
                  Line("gains life (Lifelink)", PName(ctrl), amount, life))
  ELSE st

(* variant: the end-of-turn pool is consumed before the permanent pool *)
absorbDamage_eotFirst(st, id, n) ==
  LET useEOT == Max(0, Min(n, Get(st.preventEOT, id)))
      st1 == IF useEOT > 0
             THEN [st EXCEPT !.preventEOT = Put(@, id, Get(@, id) - useEOT)]
             ELSE st
      usePerm == Max(0, Min(n - useEOT, Get(st1.preventPERM, id)))
      st2 == IF usePerm > 0
             THEN [st1 EXCEPT !.preventPERM = Put(@, id, Get(@, id) - usePerm)]
             ELSE st1
  IN [st |-> st2, dmg |-> n - usePerm - useEOT]

(* prevention: the permanent pool first, then the end-of-turn pool; a pool *)
(* is touched only when it absorbs a positive amount                       *)
absorbDamage(st, id, n) ==
  LET usePerm == Max(0, Min(n, Get(st.preventPERM, id)))
      st1 == IF usePerm > 0
             THEN [st EXCEPT !.preventPERM = Put(@, id, Get(@, id) - usePerm)]
             ELSE st
      useEOT == Max(0, Min(n - usePerm, Get(st1.preventEOT, id)))
      st2 == IF useEOT > 0
             THEN [st1 EXCEPT !.preventEOT = Put(@, id, Get(@, id) - useEOT)]
             ELSE st1
  IN [st |-> st2, dmg |-> n - usePerm - useEOT]

(* variant: Deathtouch is not consulted, only the lethal check destroys *)
landDamage_lethalOnly(st, id, n, dmg, sourceId, hpMax) ==
  lethalCheck(fireTriggers(lifelink(pushLog(st, Line("takes damage",
                                                     st.cards[id].card.name, n,
                                                     Max(0, hpMax - st.cards[id].damage))),
                                    sourceId, dmg),
                           "OnDamageDealt", Ctx(id, NoPlayer, sourceId, NoPlayer)),
              id, hpMax, "is indestructible and survives lethal damage")

(* the damage that passed prevention lands: log, Lifelink, Deathtouch, lethal *)
landDamage(st, id, n, dmg, sourceId, hpMax) ==
  LET st4 == lifelink(pushLog(st, Line("takes damage", st.cards[id].card.name, n,
                                       Max(0, hpMax - st.cards[id].damage))),
                      sourceId, dmg)
  IN IF /\ sourceId # NoId /\ HasCard(st, sourceId)
        /\ hasKeyword(st.cards[sourceId], "Deathtouch")
        /\ ~hasKeyword(st.cards[id], "Indestructible")
     THEN destroyPermanent(st4, id)
     ELSE lethalCheck(fireTriggers(st4, "OnDamageDealt",
                                   Ctx(id, NoPlayer, sourceId, NoPlayer)),
                      id, hpMax, "is indestructible and survives lethal damage")

damageAfterPrevention(st, id, n, sourceId, a) ==
  IF a.dmg <= 0
  THEN pushLog(a.st, Line("damage prevented", st.cards[id].card.name, n, 0))
  ELSE landDamage([a.st EXCEPT !.cards[id].damage = @ + a.dmg], id, n, a.dmg, sourceId,
                  effHpMax([a.st EXCEPT !.cards[id].damage = @ + a.dmg], id))

damageUnlessReplaced(st, id, n, sourceId, handled) ==
  IF handled THEN applyReplacement(st, "WouldBeDamaged", id)
  ELSE damageAfterPrevention(st, id, n, sourceId, absorbDamage(st, id, n))

dealDamageToPermanent(st, id, n, sourceId) ==
  IF ~HasCard(st, id) THEN st
  ELSE IF ~st.cards[id].card.hasStats THEN st
  ELSE damageUnlessReplaced(st, id, n, sourceId,
                            Len(replacementsForSubject(st, "WouldBeDamaged", id)) > 0)

checkLethalAfterStatChange(st, id) ==
  IF ~HasCard(st, id) THEN st
  ELSE IF ~st.cards[id].card.hasStats THEN st
  ELSE lethalCheck(st, id, effHpMax(st, id), "is indestructible and survives lethal change")


tokenCard(op) ==
  Card("Token " \o ToString(op.atk) \o "/" \o ToString(op.hp), "Unit", 0, TRUE,
       op.atk, op.hp, {}, op.tags, None, <<>>, <<>>, <<>>)

RECURSIVE discardDown(_, _, _)
discardDown(st, pid, extra) ==
  IF extra <= 0 THEN st
  ELSE discardDown(pushLog(moveCard([st EXCEPT !.players[pid].hand = Tail(@)],
                                    Head(st.players[pid].hand), "GY"),
                           Line("discards down to max hand", PName(pid), 0, 0)),
                   pid, extra - 1)

(* variant: the accumulated damage is left on the battlefield *)
clearBattlefield_keepsDamage(st, pid) ==
  [st EXCEPT !.cards = [id \in DOMAIN @ |->
     IF Contains(st.players[pid].battlefield, id)
     THEN [@[id] EXCEPT !.bonusAtkEOT = 0, !.bonusHpEOT = 0,
                        !.transformEOT = NoTransform]
     ELSE @[id]]]

(* damage and end-of-turn modifiers are cleared for the battlefield list *)
clearBattlefield(st, pid) ==
  [st EXCEPT !.cards = [id \in DOMAIN @ |->
     IF Contains(st.players[pid].battlefield, id)
     THEN [@[id] EXCEPT !.damage = IF damagePersistsTurn THEN 0 ELSE @,
                        !.bonusAtkEOT = 0, !.bonusHpEOT = 0,
                        !.transformEOT = NoTransform]
     ELSE @[id]]]

(* variant: the hand is left as it is *)
endStepCleanup_keepsHand(st, pid) == clearBattlefield(st, pid)

endStepCleanup(st, pid) ==
  clearBattlefield(discardDown(st, pid, Len(st.players[pid].hand) - maxHandSize), pid)

(* the recorded owners get their cards back, then the next turn begins *)
revertControl(st) ==
  [forEachId(LAMBDA s1, e : transferControl(s1, e[1], e[2]), st, st.controlRevertEOT)
     EXCEPT !.controlRevertEOT = <<>>,
            !.turn = [number |-> @.number + 1, active |-> Opp(@.active),
                      phase |-> "UPKEEP"]]

(* variant: the upkeep triggers fire before the per-turn counters are reset *)
turnStart_firesFirst(st) ==
  LET a == st.turn.active
      bf == st.players[a].battlefield
      onBf == {bf[i] : i \in 1..Len(bf)}
      begun == pushLog([st EXCEPT !.turn.phase = "UPKEEP"],
                       Line("-- Turn start --", PName(a), st.turn.number, 0))
      upkeep == fireTriggers(begun, "OnUpkeepStart", Ctx(NoId, NoPlayer, NoId, a))
      reset == [upkeep EXCEPT
                  !.cards = [id \in DOMAIN @ |->
                               IF id \in onBf THEN [@[id] EXCEPT !.tapped = FALSE]
                               ELSE @[id]],
                  !.eventsTurn = EmptyMap, !.triggerUseTurn = EmptyMap,
                  !.replUseTurn = EmptyMap]
      paid == [reset EXCEPT !.players[a].ap =
                 IF maxPool # -1
                 THEN Min(maxPool, IF carryOver THEN @ + perTurnGainBase
                                   ELSE perTurnGainBase)
                 ELSE IF carryOver THEN @ + perTurnGainBase ELSE perTurnGainBase]
  IN topDraw(paid, a, IF drawOnTurnStart THEN 1 ELSE 0)

(* the TurnStart operation *)
turnStart(st) ==
  LET a == st.turn.active
      bf == st.players[a].battlefield
      onBf == {bf[i] : i \in 1..Len(bf)}
      begun == pushLog([st EXCEPT !.turn.phase = "UPKEEP"],
                       Line("-- Turn start --", PName(a), st.turn.number, 0))
      reset == [begun EXCEPT
                  !.cards = [id \in DOMAIN @ |->
                               IF id \in onBf THEN [@[id] EXCEPT !.tapped = FALSE]
                               ELSE @[id]],
                  !.eventsTurn = EmptyMap, !.triggerUseTurn = EmptyMap,
                  !.replUseTurn = EmptyMap]
      upkeep == fireTriggers(reset, "OnUpkeepStart", Ctx(NoId, NoPlayer, NoId, a))
      paid == [upkeep EXCEPT !.players[a].ap =
                 IF maxPool # -1
                 THEN Min(maxPool, IF carryOver THEN @ + perTurnGainBase
                                   ELSE perTurnGainBase)
                 ELSE IF carryOver THEN @ + perTurnGainBase ELSE perTurnGainBase]
  IN topDraw(paid, a, IF drawOnTurnStart THEN 1 ELSE 0)

applyOperation(st, op) ==
  CASE op.kind = "Log" -> pushLog(st, op.msg)
    [] op.kind = "FireTriggers" -> applyPlan(st, planTriggers(st, op.when, op.ctx))
    [] op.kind = "Replace" ->
         applyPlan(st, planReplacement(st, op.when, op.subjectId, op.who))
    [] op.kind = "ResolveEffectOp" ->
         applyPlan(st, planEffect(st, op.controller, op.sourceId, op.effect, op.targets))
    [] op.kind = "SetPhase" ->
         pushLog([st EXCEPT !.turn.phase = op.phase], Line("Phase ->", op.phase, 0, 0))
    [] op.kind = "DealDamageMany" ->
         forEachId(LAMBDA s1, id : dealDamageToPermanent(s1, id, op.amount, op.sourceId),
                   st, op.targets)
    [] op.kind = "PreventDamageMany" ->
         pushLog(forEachId(LAMBDA s1, id :
                     IF op.duration = "EOT"
                     THEN [s1 EXCEPT !.preventEOT = Put(@, id, Get(@, id) + op.amount)]
                     ELSE [s1 EXCEPT !.preventPERM = Put(@, id, Get(@, id) + op.amount)],
                   st, op.targets),
                 Line("Prevent damage", op.duration, op.amount, Len(op.targets)))
    [] op.kind = "HealMany" ->
         forEachId(LAMBDA s1, id : healPermanent(s1, id, op.amount), st, op.targets)
    [] op.kind = "Draw" -> topDraw(st, op.pid, op.n)
    [] op.kind = "Mill" ->
         LET RECURSIVE mill(_, _)
             mill(s1, i) ==
               LET lib == s1.players[op.pid].library
               IN IF ~(i < op.n /\ Len(lib) > 0)
                  THEN pushLog(s1, Line("mills", PName(op.pid), i, 0))
                  ELSE mill(moveCard([s1 EXCEPT !.players[op.pid].library =
                                                  SubSeq(lib, 1, Len(lib) - 1)],
                                     lib[Len(lib)], "GY"),
                            i + 1)
         IN mill(st, 0)
    [] op.kind = "CreateToken" ->
         LET id == st.nextId
             rc == [RuntimeCard(op.pid, tokenCard(op), "BF")
                      EXCEPT !.isToken = TRUE, !.turnEntered = st.turn.number]
             made == [st EXCEPT !.nextId = @ + 1, !.cards = @ @@ (id :> rc),
                                !.players[op.pid].battlefield = Append(@, id)]
             logged == incEvent(pushLog(made, Line("creates a token", PName(op.pid),
                                                   op.atk, op.hp)),
                                "TokenCreated", op.pid)
         IN fireTriggers(fireTriggers(fireTriggers(logged, "OnTokenCreated", SubjectCtx(id)),
                                      "OnEnter", SubjectCtx(id)),
                         "OnNameMatched", SubjectCtx(id))
    [] op.kind = "AddCounterMany" ->
         forEachId(LAMBDA s1, id :
                     IF ~HasCard(s1, id) THEN s1
                     ELSE LET cur == Get(s1.cards[id].counters, op.counter)
                              next == IF op.max # -1 THEN Min(op.max, cur + op.n)
                                      ELSE cur + op.n
                          IN [s1 EXCEPT !.cards[id].counters = Put(@, op.counter, next)],
                   st, op.targets)
    [] op.kind = "RemoveCounterMany" ->
         forEachId(LAMBDA s1, id :
                     IF ~HasCard(s1, id) THEN s1
                     ELSE IF DOMAIN s1.cards[id].counters = {} THEN s1
                     ELSE [s1 EXCEPT !.cards[id].counters =
                             Put(@, op.counter, Max(0, Get(@, op.counter) - op.n))],
                   st, op.targets)
    [] op.kind = "BuffMany" ->
         forEachId(LAMBDA s1, id :
                     IF ~HasCard(s1, id) THEN s1
                     ELSE IF ~s1.cards[id].card.hasStats THEN s1
                     ELSE checkLethalAfterStatChange(
                            IF op.duration = "EOT"
                            THEN [s1 EXCEPT !.cards[id].bonusAtkEOT = @ + op.atkDelta,
                                            !.cards[id].bonusHpEOT = @ + op.hpDelta]
                            ELSE [s1 EXCEPT !.cards[id].bonusAtkPerm = @ + op.atkDelta,
                                            !.cards[id].bonusHpPerm = @ + op.hpDelta],
                            id),
                   st, op.targets)
    [] op.kind = "MoveMany" ->
         forEachId(LAMBDA s1, id : moveCard(s1, id, op.to), st, op.targets)
    [] op.kind = "ChangeControllerMany" ->
         forEachId(LAMBDA s1, id : changeController(s1, id, op.newOwner, op.duration),
                   st, op.targets)
    [] op.kind \in {"TransformMany", "CopyStatsToMany"} ->
         LET into == IF op.kind = "TransformMany"
                     THEN [set |-> TRUE, atk |-> op.into.atk, hp |-> op.into.hp]
                     ELSE [set |-> TRUE, atk |-> op.toAtk, hp |-> op.toHp]
         IN forEachId(LAMBDA s1, id :
                        IF ~HasCard(s1, id) THEN s1
                        ELSE IF ~s1.cards[id].card.hasStats THEN s1
                        ELSE checkLethalAfterStatChange(
                               IF op.duration = "EOT"
                               THEN [s1 EXCEPT !.cards[id].transformEOT = into]
                               ELSE [s1 EXCEPT !.cards[id].transformPerm = into],
                               id),
                      st, op.targets)
    [] op.kind = "TurnStart" -> turnStart(st)
    [] op.kind = "EndTurn" ->
         revertControl([endStepCleanup(endStepCleanup(st, 0), 1)
                          EXCEPT !.preventEOT = EmptyMap])
    [] op.kind = "IncTriggerUsage" ->
         IF op.per = "TURN"
         THEN [st EXCEPT !.triggerUseTurn = Put(@, op.key, Get(@, op.key) + 1)]
         ELSE [st EXCEPT !.triggerUseGame = Put(@, op.key, Get(@, op.key) + 1)]
    [] op.kind = "IncReplacementUsage" ->
         IF op.per = "TURN"
         THEN [st EXCEPT !.replUseTurn = Put(@, op.key, Get(@, op.key) + 1)]
         ELSE [st EXCEPT !.replUseGame = Put(@, op.key, Get(@, op.key) + 1)]
    [] op.kind = "IncEvent" -> incEvent(st, op.event, op.who)
    [] op.kind = "SpendAP" ->
         [st EXCEPT !.players[op.pid].ap = Max(0, @ - op.amount)]
    [] op.kind = "SetTurnEntered" ->
         IF HasCard(st, op.id) THEN [st EXCEPT !.cards[op.id].turnEntered = op.turn] ELSE st
    [] op.kind = "SetTapped" ->
         IF HasCard(st, op.id) THEN [st EXCEPT !.cards[op.id].tapped = op.tapped] ELSE st
    [] op.kind = "DamagePlayer" ->
         LET life == st.players[op.pid].life - op.amount
             hit == pushLog([st EXCEPT !.players[op.pid].life = life],
                            Line("takes damage (player)", PName(op.pid), op.amount, life))
         IN checkPlayerDeath(
              fireTriggers(lifelink(hit, op.sourceId, op.amount), "OnDamageDealt",
                           Ctx(NoId, op.pid, op.sourceId, NoPlayer)))
    [] op.kind = "CheckPlayers" -> checkPlayerDeath(st)


(* -------------------------- public operations ------------------------- *)
resolveEffect(st, controller, sourceId, eff, chosenTargets) ==
  applyPlan(st, planEffect(st, controller, sourceId, eff, chosenTargets))

startTurn(st) == applyOps(st, <<[kind |-> "TurnStart"]>>)

(* variant: the last phase wraps around to the first *)
advancePhase_wraps(st) ==
  LET idx == IndexOf(phases, st.turn.phase)
  IN IF idx = 0 THEN st
     ELSE applyOperation(st, [kind |-> "SetPhase",
                              phase |-> phases[(idx % Len(phases)) + 1]])

advancePhase(st) ==
  LET idx == IndexOf(phases, st.turn.phase)
  IN IF idx = 0 \/ idx = Len(phases) THEN st
     ELSE applyOperation(st, [kind |-> "SetPhase", phase |-> phases[idx + 1]])

endTurn(st) == applyOperation(st, [kind |-> "EndTurn"])

applyCostModifiers(st, controller, cardId, baseCost) ==
  LET ces == listContinuousEffects(st)
      RECURSIVE walk(_, _)
      walk(k, cost) ==
        IF k > Len(ces) THEN cost
        ELSE IF ces[k].eff.kind = "CostModifier"
                /\ matchesPredicate(st, st.cards[ces[k].host].owner, ces[k].host,
                                    cardId, ces[k].eff.predicate)
        THEN walk(k + 1, IF ces[k].eff.floor # -1 /\ cost + ces[k].eff.delta < ces[k].eff.floor
                         THEN ces[k].eff.floor ELSE cost + ces[k].eff.delta)
        ELSE walk(k + 1, cost)
  IN walk(1, baseCost)

(* GenericOnly payment: colored costs are never enforced at run time *)
canPayColoredCost(st, pid, colors) ==
  IF Len(colors) = 0 THEN [ok |-> TRUE, reason |-> ""]
  ELSE IF payment # "GenericAndColors" THEN [ok |-> TRUE, reason |-> ""]
  ELSE IF colorsPolicy # "InGamePayment" THEN [ok |-> TRUE, reason |-> ""]
  ELSE [ok |-> FALSE, reason |-> "Not enough colors"]

Rejected(st, reason) == [ok |-> FALSE, reason |-> reason, st |-> st]
Accepted(st) == [ok |-> TRUE, reason |-> "", st |-> st]

castCost(st, pid, id) == Max(0, applyCostModifiers(st, pid, id, st.cards[id].card.cost))

canCastFromHand(st, pid, handIndex) ==
  LET hand == st.players[pid].hand
  IN IF st.turn.active # pid THEN Rejected(st, "Not your turn")
     ELSE IF st.turn.phase # "MAIN" THEN Rejected(st, "Can cast only in MAIN phase")
     ELSE IF handIndex < 0 \/ handIndex >= Len(hand) THEN Rejected(st, "Invalid hand index")
     ELSE IF st.players[pid].ap < castCost(st, pid, hand[handIndex + 1])
     THEN Rejected(st, "Not enough AP")
     ELSE Accepted(st)

castOps(st, pid, id, chosenTargets, cost) ==
  <<[kind |-> "SpendAP", pid |-> pid, amount |-> cost],
    LogOp(Line("casts", st.cards[id].card.name, cost, st.players[pid].ap - cost)),
    [kind |-> "IncEvent", event |-> "SpellCast", who |-> pid],
    [kind |-> "FireTriggers", when |-> "OnCast", ctx |-> SubjectCtx(id)],
    [kind |-> "FireTriggers", when |-> "OnNameMatched", ctx |-> SubjectCtx(id)]>>
  \o (IF st.cards[id].card.type \in {"Unit", "Artifact", "Enchantment"}
      THEN <<[kind |-> "MoveMany", targets |-> <<id>>, to |-> "BF"],
             [kind |-> "SetTurnEntered", id |-> id, turn |-> st.turn.number]>>
      ELSE (IF st.cards[id].card.cast.kind # "None"
            THEN <<[kind |-> "ResolveEffectOp", controller |-> pid,
                    sourceId |-> id, effect |-> st.cards[id].card.cast,
                    targets |-> chosenTargets]>>
            ELSE <<>>)
           \o <<[kind |-> "MoveMany", targets |-> <<id>>, to |-> "GY"]>>)
  \o <<[kind |-> "CheckPlayers"]>>

castCard(st, pid, id, chosenTargets, cost) ==
  IF st.players[pid].ap < cost THEN Rejected(st, "Not enough AP")
  ELSE IF ~canPayColoredCost(st, pid, st.cards[id].card.colors).ok
  THEN Rejected(st, "Not enough colors")
  ELSE Accepted(applyOps(st, castOps(st, pid, id, chosenTargets, cost)))

castFromHand(st, pid, handIndex, chosenTargets) ==
  IF handIndex < 0 \/ handIndex >= Len(st.players[pid].hand)
  THEN Rejected(st, "Invalid hand index")
  ELSE castCard(st, pid, st.players[pid].hand[handIndex + 1], chosenTargets,
                castCost(st, pid, st.players[pid].hand[handIndex + 1]))

listBattlefield(st, pid) ==
  SelectSeq(st.players[pid].battlefield, LAMBDA id : HasCard(st, id))

(* variant: a tapped unit is not refused *)
canAttack_ignoresTapped(st, pid, bfIndex) ==
  LET units == listBattlefield(st, pid)
      rc == st.cards[units[bfIndex + 1]]
  IN IF bfIndex < 0 \/ bfIndex >= Len(units) THEN Rejected(st, "Invalid unit index")
     ELSE IF ~rc.card.hasStats THEN Rejected(st, "Not a unit")
     ELSE IF summoningSickness /\ rc.turnEntered = st.turn.number /\ ~hasKeyword(rc, "Haste")
     THEN Rejected(st, "Summoning sickness")
     ELSE IF hasKeyword(rc, "Defender") THEN Rejected(st, "Defender (can't attack)")
     ELSE Accepted(st)

canAttack(st, pid, bfIndex) ==
  LET units == listBattlefield(st, pid)
      rc == st.cards[units[bfIndex + 1]]
  IN IF bfIndex < 0 \/ bfIndex >= Len(units) THEN Rejected(st, "Invalid unit index")
     ELSE IF ~rc.card.hasStats THEN Rejected(st, "Not a unit")
     ELSE IF rc.tapped THEN Rejected(st, "Tapped")
     ELSE IF summoningSickness /\ rc.turnEntered = st.turn.number /\ ~hasKeyword(rc, "Haste")
     THEN Rejected(st, "Summoning sickness")
     ELSE IF hasKeyword(rc, "Defender") THEN Rejected(st, "Defender (can't attack)")
     ELSE Accepted(st)

PlayerTarget == [kind |-> "Player", index |-> 0]
UnitTarget(i) == [kind |-> "Unit", index |-> i]

(* variant: every attacker is tapped, Vigilance is not consulted *)
attackOps_alwaysTaps(st, attacker, oppId, target, dmg) ==
  <<[kind |-> "SetTapped", id |-> attacker, tapped |-> TRUE],
    [kind |-> "FireTriggers", when |-> "OnAttack", ctx |-> SubjectCtx(attacker)]>>
  \o (IF target.kind = "Player"
      THEN <<LogOp(Line("hits", st.cards[attacker].card.name, dmg,
                        st.players[oppId].life - dmg)),
             [kind |-> "DamagePlayer", pid |-> oppId, amount |-> dmg,
              sourceId |-> attacker]>>
      ELSE <<[kind |-> "DealDamageMany",
              targets |-> <<listBattlefield(st, oppId)[target.index + 1]>>,
              amount |-> dmg, sourceId |-> attacker]>>)

attackOps(st, attacker, oppId, target, dmg) ==
  (IF ~hasKeyword(st.cards[attacker], "Vigilance")
   THEN <<[kind |-> "SetTapped", id |-> attacker, tapped |-> TRUE]>>
   ELSE <<>>)
  \o <<[kind |-> "FireTriggers", when |-> "OnAttack", ctx |-> SubjectCtx(attacker)]>>
  \o (IF target.kind = "Player"
      THEN <<LogOp(Line("hits", st.cards[attacker].card.name, dmg,
                        st.players[oppId].life - dmg)),
             [kind |-> "DamagePlayer", pid |-> oppId, amount |-> dmg,
              sourceId |-> attacker]>>
      ELSE <<[kind |-> "DealDamageMany",
              targets |-> <<listBattlefield(st, oppId)[target.index + 1]>>,
              amount |-> dmg, sourceId |-> attacker]>>)

attackChecked(st, pid, bfIndex, target, can) ==
  IF st.turn.active # pid THEN Rejected(st, "Not your turn")
  ELSE IF st.turn.phase # "COMBAT" THEN Rejected(st, "Attacks only in COMBAT phase")
  ELSE IF ~can.ok THEN can
  ELSE IF attackerTargets = "PlayerOnly" /\ target.kind # "Player"
  THEN Rejected(st, "Must attack player")
  ELSE IF attackerTargets = "UnitOnly" /\ target.kind # "Unit"
  THEN Rejected(st, "Must attack unit")
  ELSE IF target.kind = "Unit"
          /\ (target.index < 0 \/ target.index >= Len(listBattlefield(st, Opp(pid))))
  THEN Rejected(st, "Invalid target unit")
  ELSE Accepted(applyOps(st,
         attackOps(st, listBattlefield(st, pid)[bfIndex + 1], Opp(pid), target,
                   effAtk(st, listBattlefield(st, pid)[bfIndex + 1]))))

attack(st, pid, bfIndex, target) ==
  attackChecked(st, pid, bfIndex, target, canAttack(st, pid, bfIndex))

(* ---------------------------- pure reducer ---------------------------- *)
(* cloneState copies the zone lists, the maps and the log, and copies each *)
(* RuntimeCard one level deep: a card that has a counters object shares    *)
(* that object with its copy. aliased names the cards whose counters       *)
(* object is reachable from both states.                                   *)
cloneState(s) ==
  [copy |-> s,
   aliased |-> {id \in DOMAIN s.cards : DOMAIN s.cards[id].counters # {}}]

(* the engine call behind each EngineAction, applied to the clone *)
reduceStep(s, action) ==
  CASE action.kind = "startTurn" -> startTurn(s)
    [] action.kind = "advancePhase" -> advancePhase(s)
    [] action.kind = "endTurn" -> endTurn(s)
    [] action.kind = "setAP" -> [s EXCEPT !.players[action.pid].ap = action.ap]
    [] action.kind = "setLife" -> [s EXCEPT !.players[action.pid].life = action.life]
    [] action.kind = "cast" ->
         LET idx == IndexOf(s.players[action.pid].hand, action.handId) - 1
         IN IF idx < 0 THEN s
            ELSE IF ~canCastFromHand(s, action.pid, idx).ok THEN s
            ELSE castFromHand(s, action.pid, idx, action.targets).st
    [] action.kind = "resolve" ->
         resolveEffect(s, action.controller, action.source, action.effect, action.targets)
    [] action.kind = "attack" ->
         LET idx == IndexOf(listBattlefield(s, action.pid), action.attackerId) - 1
         IN IF idx < 0 THEN s
            ELSE attack(s, action.pid, idx,
                        IF action.target.kind = "Player" THEN PlayerTarget
                        ELSE UnitTarget(IndexOf(listBattlefield(s, Opp(action.pid)),
                                                action.target.id) - 1)).st

(* the argument object after the call: the counters objects it shares     *)
(* with the returned state hold what the engine wrote into them           *)
inputAfter(state, aliased, out) ==
  [state EXCEPT !.cards =
     [id \in DOMAIN @ |-> IF id \in aliased
                          THEN [@[id] EXCEPT !.counters = out.cards[id].counters]
                          ELSE @[id]]]

RECURSIVE reduceSteps(_, _)
reduceSteps(s, actions) ==
  IF Len(actions) = 0 THEN s
  ELSE reduceSteps(reduceStep(cloneState(s).copy, Head(actions)), Tail(actions))

(* the returned state s together with input, the argument after the call *)
reduced(state, out) ==
  [s |-> out, input |-> inputAfter(state, cloneState(state).aliased, out)]

reduce(state, action) == reduced(state, reduceSteps(state, <<action>>))

(* reduceAll folds reduce; every clone of the chain shares the counters   *)
(* objects the first one shared                                           *)
reduceAll(state, actions) == reduced(state, reduceSteps(state, actions))

(* ------------------------------- set-up ------------------------------- *)
loadDeck(list, owner, firstId) ==
  [i \in 1..Len(list) |-> [id |-> firstId + i - 1,
                           rc |-> RuntimeCard(owner, list[i], "LIB")]]

(* the seeded shuffle is a fixed permutation of the library; the decks   *)
(* below are listed in the order the shuffle leaves them                  *)
initGame(deckA, deckB) ==
  LET la == loadDeck(deckA, 0, 1)
      lb == loadDeck(deckB, 1, Len(deckA) + 1)
      all == la \o lb
      player(l) == [life |-> startingLife, ap |-> 0,
                    library |-> [i \in 1..Len(l) |-> l[i].id], hand |-> <<>>,
                    battlefield |-> <<>>, graveyard |-> <<>>, exile |-> <<>>,
                    mulligansTaken |-> 0]
      s0 == [players |-> [pid \in {0, 1} |-> IF pid = 0 THEN player(la) ELSE player(lb)],
             cards |-> [i \in 1..Len(all) |-> all[i].rc],
             turn |-> [number |-> 1, active |-> 0, phase |-> "UPKEEP"],
             winner |-> NoPlayer, preventEOT |-> EmptyMap, preventPERM |-> EmptyMap,
             controlRevertEOT |-> <<>>, eventsTurn |-> EmptyMap,
             eventsGame |-> EmptyMap, triggerUseTurn |-> EmptyMap,
             triggerUseGame |-> EmptyMap, replUseTurn |-> EmptyMap,
             replUseGame |-> EmptyMap, log |-> <<>>, nextId |-> Len(all) + 1]
  IN applyOps(s0, <<[kind |-> "Draw", pid |-> 0, n |-> startingHand],
                    [kind |-> "Draw", pid |-> 1, n |-> startingHand]>>)


(* ---------------------------- the analyzer ---------------------------- *)
MAX_TRIGGER_CREDITS_PER_RESOLUTION == 8
MAX_SPAWN_CREDITS_PER_RESOLUTION == 6
MAX_REPEAT == 3
MAX_FOREACH_TARGETS == 3

(* the nodes of an effect tree in visiting order *)
RECURSIVE walkEffect(_)
walkEffect(e) ==
  <<e>> \o
  CASE e.kind = "Conditional" ->
         walkEffect(e.then) \o (IF e.else.kind # "None" THEN walkEffect(e.else) ELSE <<>>)
    [] e.kind = "Case" ->
         Flatten([i \in 1..Len(e.branches) |-> walkEffect(e.branches[i].do)])
         \o (IF e.else.kind # "None" THEN walkEffect(e.else) ELSE <<>>)
    [] e.kind \in {"ForEach", "Repeat"} -> walkEffect(e.body)
    [] e.kind = "Sequence" -> Flatten([i \in 1..Len(e.steps) |-> walkEffect(e.steps[i])])
    [] OTHER -> <<>>

(* the product of two counts, a count of zero taken as one; the counts of *)
(* the pools stay far below Number.MAX_SAFE_INTEGER                       *)
multiply(a, b) == (IF a = 0 THEN 1 ELSE a) * (IF b = 0 THEN 1 ELSE b)

(* emits[k] = (emits[k] || 0) + n, the keys kept in insertion order *)
add(emits, k, n) ==
  IF \E i \in 1..Len(emits) : emits[i].to = k
  THEN [i \in 1..Len(emits) |->
          IF emits[i].to = k THEN [emits[i] EXCEPT !.m = @ + n] ELSE emits[i]]
  ELSE Append(emits, [to |-> k, m |-> n])

RECURSIVE recur(_, _, _), recurAll(_, _, _)
recurAll(nodes, mult, acc) ==
  IF Len(nodes) = 0 THEN acc ELSE recurAll(Tail(nodes), mult, recur(Head(nodes), mult, acc))

recur(node, mult, acc) ==
  CASE node.kind = "CreateToken" ->
         [emits |-> add(add(acc.emits, "OnTokenCreated", mult), "OnEnter", mult),
          spawns |-> acc.spawns + mult]
    [] node.kind = "Move" ->
         IF node.to = "BF"
         THEN [emits |-> add(acc.emits, "OnEnter", mult), spawns |-> acc.spawns + mult]
         ELSE acc
    [] node.kind = "Draw" -> [acc EXCEPT !.emits = add(@, "OnDraw", mult)]
    [] node.kind = "DealDamage" -> [acc EXCEPT !.emits = add(@, "OnDamageDealt", mult)]
    [] node.kind = "Sequence" -> recurAll(node.steps, mult, acc)
    [] node.kind = "Conditional" ->
         recurAll(<<node.then>> \o (IF node.else.kind # "None" THEN <<node.else>> ELSE <<>>),
                  mult, acc)
    [] node.kind = "Case" ->
         recurAll([i \in 1..Len(node.branches) |-> node.branches[i].do]
                  \o (IF node.else.kind # "None" THEN <<node.else>> ELSE <<>>), mult, acc)
    [] node.kind = "ForEach" ->
         recur(node.body, multiply(mult, Min(node.maxTargets, MAX_FOREACH_TARGETS)), acc)
    [] node.kind = "Repeat" ->
         recur(node.body, multiply(mult, Min(node.times, MAX_REPEAT)), acc)
    [] OTHER -> acc

effectMultiplicity(e) == recur(e, 1, [emits |-> <<>>, spawns |-> 0])

RECURSIVE SumOf(_)
SumOf(ns) == IF Len(ns) = 0 THEN 0 ELSE Head(ns) + SumOf(Tail(ns))

(* the error codes of analyzeCard, in the order the checks raise them; a  *)
(* card record of the model always carries the duration, the clamp and    *)
(* the fixed stat block the remaining audits ask for                      *)
analyzeCard(card) ==
  LET effects == (IF card.cast.kind # "None" THEN <<card.cast>> ELSE <<>>)
                 \o [i \in 1..Len(card.triggers) |-> card.triggers[i].effect]
                 \o [i \in 1..Len(card.replacements) |-> card.replacements[i].instead]
      replCodes(r) ==
        Flatten([i \in 1..Len(walkEffect(r.instead)) |->
          (IF r.when = "WouldDie" /\ walkEffect(r.instead)[i].kind = "Move"
              /\ walkEffect(r.instead)[i].to = "GY"
           THEN <<"REPL_WOULD_DIE_TO_GY">> ELSE <<>>)
          \o (IF r.when = "WouldDraw" /\ walkEffect(r.instead)[i].kind = "Draw"
              THEN <<"REPL_WOULD_DRAW_TO_DRAW">> ELSE <<>>)])
      audit(node) ==
        CASE node.kind = "ForEach" ->
               IF node.maxTargets > MAX_FOREACH_TARGETS
               THEN <<"FOREACH_MAXTARGETS_EXCESS">> ELSE <<>>
          [] node.kind = "Repeat" ->
               IF node.times > MAX_REPEAT THEN <<"REPEAT_TOO_LARGE">> ELSE <<>>
          [] OTHER -> <<>>
      triggerCredits ==
        SumOf([i \in 1..Len(card.triggers) |->
                 Min(card.triggers[i].limit.times,
                     SumOf([k \in 1..Len(effectMultiplicity(card.triggers[i].effect).emits) |->
                              effectMultiplicity(card.triggers[i].effect).emits[k].m]))])
      spawnCredits == SumOf([i \in 1..Len(effects) |-> effectMultiplicity(effects[i]).spawns])
      codes ==
        (IF card.type = "Unit" /\ ~card.hasStats THEN <<"UNIT_STATS_MISSING">> ELSE <<>>)
        \o Flatten([i \in 1..Len(card.replacements) |-> replCodes(card.replacements[i])])
        \o Flatten([i \in 1..Len(effects) |->
                      Flatten([k \in 1..Len(walkEffect(effects[i])) |->
                                 audit(walkEffect(effects[i])[k])])])
        \o (IF triggerCredits > MAX_TRIGGER_CREDITS_PER_RESOLUTION
            THEN <<"TRIGGER_CREDITS_EXCESS">> ELSE <<>>)
        \o (IF spawnCredits > MAX_SPAWN_CREDITS_PER_RESOLUTION
            THEN <<"SPAWN_CREDITS_EXCESS">> ELSE <<>>)
  IN [ok |-> Len(codes) = 0, issues |-> codes,
      triggerCredits |-> triggerCredits, spawnCredits |-> spawnCredits]

(* the edges of the event graph: one per trigger and emitted event kind *)
edgesOf(cs) ==
  Flatten([c \in 1..Len(cs) |->
    Flatten([t \in 1..Len(cs[c].triggers) |->
      LET emits == effectMultiplicity(cs[c].triggers[t].effect).emits
      IN [k \in 1..Len(emits) |->
            [from |-> cs[c].triggers[t].when, to |-> emits[k].to,
             multiplicity |-> emits[k].m, card |-> cs[c].name,
             limit |-> cs[c].triggers[t].limit.times]]])])

(* the replacement checks of analyzeGlobal *)
replacementIssues(cs) ==
  Flatten([c \in 1..Len(cs) |->
    Flatten([r \in 1..Len(cs[c].replacements) |->
      LET emits == effectMultiplicity(cs[c].replacements[r].instead).emits
          has(k) == \E i \in 1..Len(emits) : emits[i].to = k /\ emits[i].m # 0
          when == cs[c].replacements[r].when
      IN (IF when = "WouldDraw" /\ has("OnDraw")
          THEN <<[code |-> "REPL_SAME_EVENT_EMIT", cards |-> <<cs[c].name>>]>> ELSE <<>>)
         \o (IF when = "WouldBeDamaged" /\ has("OnDamageDealt")
             THEN <<[code |-> "REPL_SAME_EVENT_EMIT", cards |-> <<cs[c].name>>]>>
             ELSE <<>>)
         \o (IF when = "WouldDie" /\ has("OnDeath")
             THEN <<[code |-> "REPL_EMITS_ONDEATH", cards |-> <<cs[c].name>>]>>
             ELSE <<>>)])])

(* the issue of a closed stack of edges, if it is over a ceiling *)
cycleIssue(cycle) ==
  LET totalLimit == SumOf([i \in 1..Len(cycle) |-> cycle[i].limit])
      RECURSIVE product(_)
      product(es) == IF Len(es) = 0 THEN 1
                     ELSE multiply(product(SubSeq(es, 1, Len(es) - 1)),
                                   es[Len(es)].multiplicity)
  IN IF totalLimit > MAX_TRIGGER_CREDITS_PER_RESOLUTION
        \/ product(cycle) > MAX_SPAWN_CREDITS_PER_RESOLUTION
     THEN <<[code |-> "EVENT_CYCLE_UNBOUNDED",
             cards |-> [i \in 1..Len(cycle) |-> cycle[i].card]]>>
     ELSE <<>>

(* the depth-first search; d holds visiting, visited and the issues *)
RECURSIVE dfs(_, _, _, _), dfsEdges(_, _, _, _)
dfsEdges(es, stack, d, edges) ==
  IF Len(es) = 0 THEN d
  ELSE dfsEdges(Tail(es), stack,
                IF Head(es).to \in d.visited THEN d
                ELSE IF Head(es).to \in d.visiting
                THEN [d EXCEPT !.issues = @ \o cycleIssue(Append(stack, Head(es)))]
                ELSE dfs(Head(es).to, Append(stack, Head(es)), d, edges),
                edges)

dfs(u, stack, d, edges) ==
  IF u \in d.visiting THEN d
  ELSE LET done == dfsEdges(SelectSeq(edges, LAMBDA e : e.from = u), stack,
                            [d EXCEPT !.visiting = @ \cup {u}], edges)
       IN [done EXCEPT !.visiting = @ \ {u}, !.visited = @ \cup {u}]

(* the nodes in the order of their first appearance in the edges *)
nodesOf(edges) ==
  LET ends == Flatten([i \in 1..Len(edges) |-> <<edges[i].from, edges[i].to>>])
  IN SelectSeq([i \in 1..Len(ends) |->
                  IF \E j \in 1..(i - 1) : ends[j] = ends[i] THEN "" ELSE ends[i]],
               LAMBDA n : n # "")

RECURSIVE dfsAll(_, _, _)
dfsAll(nodes, d, edges) ==
  IF Len(nodes) = 0 THEN d
  ELSE dfsAll(Tail(nodes), dfs(Head(nodes), <<>>, d, edges), edges)

analyzeGlobal(cs) ==
  LET issues == dfsAll(nodesOf(edgesOf(cs)),
                       [visiting |-> {}, visited |-> {}, issues |-> replacementIssues(cs)],
                       edgesOf(cs)).issues
  IN [ok |-> Len(issues) = 0, issues |-> issues]

(* the mulligan: the Fisher-Yates loop of shuffle, each call of rng       *)
(* returning r / RngSteps; Math.random is an input of the operation       *)
bottomCount == 1
RngSteps == 2
MaxMulligans == 1

RECURSIVE shuffle(_, _, _)
shuffle(arr, i, r) ==
  IF i <= 0 THEN arr
  ELSE LET j == (r * (i + 1)) \div RngSteps
       IN shuffle([arr EXCEPT ![i + 1] = arr[j + 1], ![j + 1] = arr[i + 1]], i - 1, r)

(* the end of the mulligan: the last cards of the new hand go under the   *)
(* library, which is the front of its array                               *)
bottomCards(drawn, pid, hand, bottom) ==
  pushLog([drawn EXCEPT
             !.players[pid].hand = SubSeq(hand, 1, Len(hand) - bottom),
             !.players[pid].library = SubSeq(hand, Len(hand) - bottom + 1, Len(hand)) \o @,
             !.cards = [id \in DOMAIN @ |->
                          IF \E i \in (Len(hand) - bottom + 1)..Len(hand) : hand[i] = id
                          THEN [@[id] EXCEPT !.zone = "LIB"] ELSE @[id]],
             !.players[pid].mulligansTaken = @ + 1],
          Line("mulligans and bottoms", PName(pid), bottom, 0))

bottomHand(drawn, pid) ==
  bottomCards(drawn, pid, drawn.players[pid].hand,
              Min(bottomCount, Len(drawn.players[pid].hand)))

mulliganLondon(st, pid, r) ==
  LET p == st.players[pid]
      back == p.library \o [i \in 1..Len(p.hand) |-> p.hand[Len(p.hand) + 1 - i]]
  IN bottomHand(applyOps([st EXCEPT !.players[pid].hand = <<>>,
                                    !.players[pid].library =
                                       shuffle(back, Len(back) - 1, r)],
                         <<[kind |-> "Draw", pid |-> pid, n |-> startingHand]>>),
                pid)

(* ----------------------- card pools and inputs ------------------------ *)
AnyBF == Sel("ANY", "BF", -1, None)
OppBF == Sel("OPP", "BF", 1, PTrue)
SelfBF == Sel("SELF", "BF", -1, None)
DealDamage(sel, n) == [kind |-> "DealDamage", target |-> sel, amount |-> Const(n)]
PreventDamage(sel, n, d) ==
  [kind |-> "PreventDamage", target |-> sel, amount |-> Const(n), duration |-> d]
Heal(sel, n) == [kind |-> "Heal", target |-> sel, amount |-> Const(n)]
Draw(who, n) == [kind |-> "Draw", who |-> who, n |-> Const(n)]
CreateToken(who, atk, hp) ==
  [kind |-> "CreateToken", who |-> who, atk |-> atk, hp |-> hp, tags |-> {}]
Buff(sel, atk, hp, d) ==
  [kind |-> "Buff", target |-> sel, atk |-> atk, hp |-> hp, duration |-> d]
Move(sel, to) == [kind |-> "Move", target |-> sel, to |-> to]
ChangeController(sel, who, d) ==
  [kind |-> "ChangeController", target |-> sel, newController |-> who, duration |-> d]
Transform(sel, atk, hp, d) ==
  [kind |-> "Transform", target |-> sel, into |-> [atk |-> atk, hp |-> hp],
   duration |-> d]
AddCounter(sel, counter, n) ==
  [kind |-> "AddCounter", target |-> sel, counter |-> counter, n |-> Const(n), max |-> -1]
Sequence(steps) == [kind |-> "Sequence", steps |-> steps]
ForEach(among, maxTargets, body) ==
  [kind |-> "ForEach", among |-> among, maxTargets |-> maxTargets, body |-> body]
IsToken == [kind |-> "IsToken", in |-> "Target"]
Trigger(when, cond, eff, per, times) ==
  [when |-> when, condition |-> cond, effect |-> eff, limit |-> [per |-> per, times |-> times]]
Replacement(when, subject, instead, per, times) ==
  [when |-> when, subject |-> subject, instead |-> instead,
   limit |-> [per |-> per, times |-> times]]

Unit(name, generic, atk, hp, keywords) ==
  Card(name, "Unit", generic, TRUE, atk, hp, keywords, {}, None, <<>>, <<>>, <<>>)
(* the cards of the pools, by name *)
PoolCard(name) ==
  CASE name = "Filler" ->
         Card("Filler", "Spell", 5, FALSE, 0, 0, {}, {}, None, <<>>, <<>>, <<>>)
    [] name = "Relic" ->
         Card("Relic", "Artifact", 0, FALSE, 0, 0, {}, {}, None, <<>>, <<>>, <<>>)
    [] name = "Assassin" ->
         Unit("Assassin", 0, 2, 1, {"Deathtouch", "Haste", "Lifelink"})
    [] name = "Squire" ->
         Unit("Squire", 0, 1, 1, {})
    [] name = "Bulwark" ->
         Unit("Bulwark", 0, 0, 3, {"Defender"})
    [] name = "Immortal" ->
         Unit("Immortal", 0, 2, 2, {"Indestructible"})
    [] name = "Runner" ->
         Unit("Runner", 0, 2, 2, {"Haste"})
    [] name = "Goblin" ->
         Unit("Goblin", 0, 1, 1, {})
    [] name = "Insight" ->
         Card("Insight", "Spell", 0, FALSE, 0, 0, {}, {}, Draw("SELF", 1),
         <<>>, <<>>, <<>>)
    [] name = "Acolyte" ->
         [Unit("Acolyte", 0, 1, 1, {}) EXCEPT
            !.triggers = <<Trigger("OnUpkeepStart", None, CreateToken("SELF", 1, 1),
                                   "TURN", 1)>>]
    [] name = "Knight" ->
         Unit("Knight", 0, 1, 2, {"Vigilance", "Haste"})
    [] name = "Ghost" ->
         Unit("Ghost", 0, 2, 2, {"Hexproof"})
    [] name = "Bolt" ->
         Card("Bolt", "Spell", 0, FALSE, 0, 0, {}, {}, DealDamage(AnyBF, 1),
              <<>>, <<>>, <<>>)
    [] name = "Archer" ->
         [Unit("Archer", 0, 1, 1, {"Haste"}) EXCEPT
            !.triggers = <<Trigger("OnEnter", None, DealDamage(OppBF, 1), "TURN", 1)>>]
    [] name = "Thorn" ->
         [Unit("Thorn", 0, 1, 2, {}) EXCEPT
            !.replacements = <<Replacement("WouldBeDamaged", SelfBF,
                                           ForEach(AnyBF, 2, DealDamage(AnyBF, 1)),
                                           "TURN", 1)>>]
    [] name = "Herald" ->
         [Unit("Herald", 0, 1, 1, {"Haste"}) EXCEPT
         !.triggers = <<Trigger("OnEnter", IsToken, CreateToken("SELF", 1, 1), "TURN", 1)>>]
    [] name = "Chanter" ->
         [Unit("Chanter", 0, 1, 1, {}) EXCEPT
         !.triggers = <<Trigger("OnEnter", IsToken, Draw("SELF", 1), "TURN", 1)>>]
    [] name = "Avenger" ->
         [Unit("Avenger", 0, 1, 3, {}) EXCEPT
         !.triggers = <<Trigger("OnDeath", None, DealDamage(AnyBF, 1), "TURN", 2)>>]
    [] name = "Warded" ->
         [Unit("Warded", 0, 2, 3, {}) EXCEPT
         !.replacements = <<Replacement("WouldBeDamaged", SelfBF, DealDamage(AnyBF, 1),
         "TURN", 1)>>]
    [] name = "Aegis" ->
         [Unit("Aegis", 0, 0, 2, {}) EXCEPT
         !.replacements = <<Replacement("WouldBeDamaged", SelfBF, Heal(AnyBF, 1),
         "TURN", 1)>>]
    [] name = "Phoenix" ->
         [Unit("Phoenix", 0, 1, 1, {}) EXCEPT
         !.replacements = <<Replacement("WouldDie", SelfBF, Heal(AnyBF, 5), "GAME", 1)>>]
    [] name = "Scout" ->
         [Unit("Scout", 0, 1, 1, {"Haste"}) EXCEPT
         !.triggers = <<Trigger("OnEnter", None, Draw("SELF", 1), "TURN", 5)>>]
    [] name = "Seer" ->
         [Unit("Seer", 0, 1, 3, {"Haste"}) EXCEPT
         !.triggers = <<Trigger("OnDraw", None, DealDamage(OppBF, 1), "TURN", 2)>>]
    [] name = "Oracle" ->
         [Unit("Oracle", 0, 1, 3, {"Haste"}) EXCEPT
         !.triggers = <<Trigger("OnDraw", None, DealDamage(OppBF, 1), "TURN", 9)>>]
    [] name = "Pyre" ->
         [Unit("Pyre", 0, 1, 3, {"Haste"}) EXCEPT
         !.triggers = <<Trigger("OnDamageDealt", None, Draw("SELF", 1), "TURN", 2)>>]
    [] name = "Hive" ->
         [Unit("Hive", 0, 1, 1, {"Haste"}) EXCEPT
         !.triggers = <<Trigger("OnEnter", None,
                                Sequence(<<CreateToken("SELF", 1, 1),
                                           CreateToken("SELF", 1, 1),
                                           CreateToken("SELF", 1, 1),
                                           CreateToken("SELF", 1, 1)>>), "TURN", 2)>>]
    [] name = "Mourner" ->
         [Unit("Mourner", 0, 1, 1, {"Haste"}) EXCEPT
         !.triggers = <<Trigger("OnDeath", None, CreateToken("SELF", 0, 0), "TURN", 9)>>]
    [] name = "Banner" ->
         Card("Banner", "Artifact", 0, FALSE, 0, 0, {}, {}, None, <<>>,
              <<[kind |-> "StaticBuff", target |-> SelfBF, atk |-> 0, hp |-> 1]>>,
              <<>>)
    [] name = "Recruit" ->
         Unit("Recruit", 0, 1, 2, {"Haste"})
    [] name = "Sentry" ->
         [Unit("Sentry", 0, 1, 2, {"Haste"}) EXCEPT
         !.replacements = <<Replacement("WouldDraw", Sel("SELF", "NONE", -1, None),
         Draw("SELF", 1), "TURN", 1)>>]

(* the pools handed to the analyzer, each played as a match as well *)
AnalysisPools ==
  {"loop", "prefix", "parallel", "heavy", "hive", "deathtoken", "shield"}

(* decks in library order, bottom first: the top five cards are drawn *)
Decks(name) ==
  LET fillers == <<"Filler", "Filler", "Filler", "Filler", "Filler", "Goblin">>
      of == CASE name = "loop" ->
                   [a |-> <<"Filler", "Filler", "Filler", "Filler", "Seer", "Pyre">>,
                    b |-> fillers]
              [] name = "prefix" ->
                   [a |-> <<"Filler", "Filler", "Filler", "Scout", "Seer", "Pyre">>,
                    b |-> fillers]
              [] name = "parallel" ->
                   [a |-> <<"Filler", "Filler", "Filler", "Seer", "Oracle", "Pyre">>,
                    b |-> fillers]
              [] name = "heavy" ->
                   [a |-> <<"Filler", "Filler", "Filler", "Filler", "Oracle", "Pyre">>,
                    b |-> fillers]
              [] name = "hive" ->
                   [a |-> <<"Filler", "Filler", "Filler", "Filler", "Filler", "Hive">>,
                    b |-> fillers]
              [] name = "deathtoken" ->
                   [a |-> <<"Filler", "Filler", "Filler", "Filler", "Filler", "Mourner">>,
                    b |-> fillers]
              [] name = "shield" ->
                   [a |-> <<"Filler", "Filler", "Filler", "Aegis", "Phoenix", "Pyre">>,
                    b |-> fillers]
              [] name = "stat" ->
                   [a |-> <<"Filler", "Filler", "Filler", "Filler", "Filler", "Filler",
                            "Filler", "Filler", "Banner", "Recruit", "Immortal",
                            "Phoenix">>,
                    b |-> fillers]
              [] name = "combat" ->
                   [a |-> <<"Filler", "Filler", "Filler", "Relic", "Squire", "Assassin">>,
                    b |-> <<"Filler", "Filler", "Filler", "Filler", "Bulwark", "Immortal">>]
              [] name = "eot" ->
                   [a |-> <<"Filler", "Filler", "Filler", "Filler", "Insight", "Runner">>,
                    b |-> <<"Filler", "Filler", "Filler", "Filler", "Filler", "Goblin">>]
              [] name = "trig" ->
                   [a |-> <<"Filler", "Filler", "Filler", "Acolyte", "Herald", "Chanter">>,
                    b |-> <<"Filler", "Filler", "Filler", "Filler", "Goblin", "Avenger">>]
              [] name = "repl" ->
                   [a |-> <<"Filler", "Filler", "Filler", "Filler", "Filler", "Sentry">>,
                    b |-> <<"Filler", "Filler", "Filler", "Aegis", "Phoenix", "Warded">>]
              [] name = "kw" ->
                   [a |-> <<"Filler", "Thorn", "Archer", "Bolt", "Knight", "Squire">>,
                    b |-> <<"Filler", "Filler", "Filler", "Filler", "Goblin", "Ghost">>]
  IN [a |-> [i \in 1..Len(of.a) |-> PoolCard(of.a[i])],
      b |-> [i \in 1..Len(of.b) |-> PoolCard(of.b[i])]]

Input(controller, sourceId, eff, targets) ==
  [controller |-> controller, sourceId |-> sourceId, eff |-> eff, targets |-> targets]

(* the effects offered to resolveEffect in each pool *)
ResolveInputs(name) ==
  CASE name \in AnalysisPools ->
         {Input(0, NoId, DealDamage(AnyBF, 1), <<>>),
          Input(0, NoId, Draw("SELF", 1), <<>>)}
    [] name = "stat" ->
         {Input(0, NoId, Draw("SELF", 6), <<>>),
          Input(0, NoId, Buff(AnyBF, 0, -2, "EOT"), <<>>),
          Input(0, NoId, Transform(AnyBF, 1, 1, "EOT"), <<>>),
          Input(0, NoId, DealDamage(AnyBF, 2), <<>>),
          Input(0, NoId, Move(Sel("SELF", "BF", 1, None), "HAND"), <<>>),
          Input(0, NoId, DealDamage(OppBF, 1), <<10, 14, 18>>)}
    [] name = "combat" ->
         {Input(0, NoId, DealDamage(OppBF, 1), <<>>),
          Input(0, NoId, DealDamage(OppBF, 3), <<>>),
          Input(0, 6, DealDamage(OppBF, 1), <<>>),
          Input(1, NoId, Sequence(<<PreventDamage(SelfBF, 1, "PERM"),
                                    PreventDamage(SelfBF, 1, "EOT")>>), <<>>)}
    [] name = "eot" ->
         {Input(0, NoId, Sequence(<<Buff(AnyBF, 1, 1, "EOT"),
                                    Transform(AnyBF, 3, 3, "EOT"),
                                    PreventDamage(AnyBF, 1, "EOT")>>), <<>>),
          Input(0, NoId, Move(AnyBF, "HAND"), <<>>),
          Input(0, NoId, ChangeController(OppBF, "SELF", "EOT"), <<>>),
          Input(1, NoId, ChangeController(OppBF, "SELF", "EOT"), <<>>),
          Input(0, NoId, CreateToken("SELF", 1, 1), <<>>)}
    [] name = "trig" ->
         {Input(0, NoId, CreateToken("SELF", 1, 1), <<>>),
          Input(0, NoId, DealDamage(OppBF, 1), <<11>>)}
    [] name = "kw" ->
         {Input(0, NoId, DealDamage(OppBF, 1), <<>>),
          Input(0, NoId, Move(Sel("SELF", "HAND", 1, PTrue), "BF"), <<>>),
          Input(0, NoId, CreateToken("SELF", 1, 1), <<>>)}
    [] name = "repl" ->
         {Input(0, NoId, DealDamage(OppBF, 1), <<12>>),
          Input(0, NoId, DealDamage(OppBF, 1), <<11>>),
          Input(0, NoId, Draw("SELF", 1), <<>>),
          Input(0, NoId, AddCounter(AnyBF, "charge", 1), <<>>)}

MaxIndex == 1
Indexes == 0..MaxIndex
Targets == {PlayerTarget} \cup {UnitTarget(i) : i \in Indexes}

(* --------------------------- the state machine ------------------------ *)
(* the owners at the beginning of the turn; a card created during the turn *)
(* is entered with its first owner                                         *)
KeepOwners ==
  turnOwner' = [id \in DOMAIN cards' |->
                  IF id \in DOMAIN turnOwner THEN turnOwner[id] ELSE cards'[id].owner]

Commit(r) ==
  /\ players' = r.players /\ cards' = r.cards /\ turn' = r.turn
  /\ winner' = r.winner /\ preventEOT' = r.preventEOT
  /\ preventPERM' = r.preventPERM /\ controlRevertEOT' = r.controlRevertEOT
  /\ eventsTurn' = r.eventsTurn /\ eventsGame' = r.eventsGame
  /\ triggerUseTurn' = r.triggerUseTurn /\ triggerUseGame' = r.triggerUseGame
  /\ replUseTurn' = r.replUseTurn /\ replUseGame' = r.replUseGame
  /\ log' = r.log /\ nextId' = r.nextId
  /\ nOps' = IF r = S THEN nOps ELSE nOps + 1
  /\ pool' = pool

InitFrom(r, name) ==
  /\ players = r.players /\ cards = r.cards /\ turn = r.turn
  /\ winner = r.winner /\ preventEOT = r.preventEOT
  /\ preventPERM = r.preventPERM /\ controlRevertEOT = r.controlRevertEOT
  /\ eventsTurn = r.eventsTurn /\ eventsGame = r.eventsGame
  /\ triggerUseTurn = r.triggerUseTurn /\ triggerUseGame = r.triggerUseGame
  /\ replUseTurn = r.replUseTurn /\ replUseGame = r.replUseGame
  /\ log = r.log /\ nextId = r.nextId
  /\ turnOwner = [id \in DOMAIN r.cards |-> r.cards[id].owner] /\ pool = name /\ nOps = 0

InitPool(name) == InitFrom(initGame(Decks(name).a, Decks(name).b), name)

StartTurn == nOps < MaxOps /\ Commit(startTurn(S)) /\ KeepOwners

AdvancePhase == nOps < MaxOps /\ Commit(advancePhase(S)) /\ KeepOwners

EndTurn ==
  /\ nOps < MaxOps /\ turn.number < MaxTurn
  /\ Commit(endTurn(S))
  /\ turnOwner' = [id \in DOMAIN cards' |-> cards'[id].owner]

CastFromHand ==
  /\ nOps < MaxOps
  /\ \E pid \in {0, 1}, i \in 0..(startingHand - 1) :
       Commit(castFromHand(S, pid, i, <<>>).st)
  /\ KeepOwners

Attack ==
  /\ nOps < MaxOps
  /\ \E pid \in {0, 1}, i \in Indexes, t \in Targets : Commit(attack(S, pid, i, t).st)
  /\ KeepOwners

ResolveEffect ==
  /\ nOps < MaxOps
  /\ \E in \in ResolveInputs(pool) :
       Commit(resolveEffect(S, in.controller, in.sourceId, in.eff, in.targets))
  /\ KeepOwners

Next == StartTurn \/ AdvancePhase \/ EndTurn \/ CastFromHand \/ Attack \/ ResolveEffect

Mulligan ==
  /\ nOps < MaxOps
  /\ \E pid \in {0, 1}, r \in 0..(RngSteps - 1) :
       /\ players[pid].mulligansTaken < MaxMulligans
       /\ Commit(mulliganLondon(S, pid, r))
  /\ KeepOwners

NextMatch ==
  \/ StartTurn \/ AdvancePhase \/ EndTurn \/ CastFromHand \/ Attack \/ ResolveEffect
  \/ Mulligan

Init == InitPool("eot")
Spec == Init /\ [][Next]_vars
InitCombat == InitPool("combat")
SpecCombat == InitCombat /\ [][Next]_vars
InitTrig == InitPool("trig")
SpecTrig == InitTrig /\ [][Next]_vars
InitRepl == InitPool("repl")
SpecRepl == InitRepl /\ [][Next]_vars
InitKw == InitPool("kw")
SpecKw == InitKw /\ [][Next]_vars
SpecMatch == InitTrig /\ [][NextMatch]_vars
InitStat == InitPool("stat")
SpecStat == InitStat /\ [][Next]_vars
InitAnalysis == \E name \in AnalysisPools : InitPool(name)
SpecAnalysis == InitAnalysis /\ [][Next]_vars


(* ------------------------------ properties ---------------------------- *)
MaxDamage == 3

Count(arr, x) == Cardinality({i \in 1..Len(arr) : arr[i] = x})
ZoneCount(p, id) ==
  Count(p.library, id) + Count(p.hand, id) + Count(p.battlefield, id)
    + Count(p.graveyard, id) + Count(p.exile, id)
Occurrences(st, id) == ZoneCount(st.players[0], id) + ZoneCount(st.players[1], id)
Listed(st) ==
  UNION {{getZoneArray(st.players[pid], PLAYER_ZONES[z])[i] :
            i \in 1..Len(getZoneArray(st.players[pid], PLAYER_ZONES[z]))} :
         pid \in {0, 1}, z \in 1..Len(PLAYER_ZONES)}
LogCount(l, tag, name) ==
  Cardinality({i \in 1..Len(l) : l[i].tag = tag /\ l[i].name = name})
OnBattlefield(st, id) == st.cards[id].zone = "BF"
NoReplacementOf(st, when) ==
  \A c \in DOMAIN st.cards :
    OnBattlefield(st, c) =>
      \A k \in 1..Len(st.cards[c].card.replacements) :
        st.cards[c].card.replacements[k].when # when

C2_DiesExactlyOnce ==
  \A id \in DOMAIN cards :
    LET rc == cards[id]
        n == effHpMax(S, id) - rc.damage
        post == resolveEffect(S, rc.owner, NoId, DealDamage(AnyBF, n), <<id>>)
        again == resolveEffect(post, rc.owner, NoId, DealDamage(AnyBF, n), <<id>>)
    IN (/\ rc.zone = "BF" /\ rc.card.hasStats /\ n > 0
        /\ ~hasKeyword(rc, "Indestructible")
        /\ Get(preventPERM, id) = 0 /\ Get(preventEOT, id) = 0
        /\ NoReplacementOf(S, "WouldBeDamaged") /\ NoReplacementOf(S, "WouldDie"))
       => /\ LogCount(post.log, "dies", rc.card.name)
               = LogCount(log, "dies", rc.card.name) + 1
          /\ Get(post.eventsGame, <<"UnitDied", rc.owner>>)
               = Get(eventsGame, <<"UnitDied", rc.owner>>) + 1
          /\ post.cards[id].zone = (IF rc.isToken THEN tokensLeaveTo ELSE "GY")
          /\ again.cards[id] = post.cards[id]
          /\ \A pid \in {0, 1} : again.players[pid].life = post.players[pid].life

(* C3: trigger usage limit. The effect of a trigger definition is applied *)
(* at most limit.times times in a turn window (per TURN) or in the game   *)
(* (per GAME); every application is preceded by one usage increment, so   *)
(* the usage counters count the applications.                             *)
C3_TriggerLimit ==
  \A key \in (DOMAIN triggerUseTurn) \cup (DOMAIN triggerUseGame) :
    LET t == cards[key[1]].card.triggers[key[2] + 1]
    IN /\ t.limit.per = "TURN" => Get(triggerUseTurn, key) <= t.limit.times
       /\ t.limit.per = "GAME" => Get(triggerUseGame, key) <= t.limit.times


ReplacementsOf(st, when) ==
  {<<c, k>> \in (DOMAIN st.cards) \X (0..1) :
     /\ OnBattlefield(st, c) /\ k < Len(st.cards[c].card.replacements)
     /\ st.cards[c].card.replacements[k + 1].when = when}
ReplUse(st, key) ==
  IF st.cards[key[1]].card.replacements[key[2] + 1].limit.per = "TURN"
  THEN Get(st.replUseTurn, key) ELSE Get(st.replUseGame, key)
Exhausted(st, when) ==
  \A key \in ReplacementsOf(st, when) :
    ReplUse(st, key) >= st.cards[key[1]].card.replacements[key[2] + 1].limit.times
NextTag(st, post) == post.log[Len(st.log) + 1].tag

(* C4: replacement usage limit. A replacement definition substitutes its  *)
(* effect at most limit.times times per turn window or per game, also     *)
(* when its substituted effect raises the replaced event again; when the  *)
(* definitions listening to an event are exhausted, the event proceeds    *)
(* unreplaced: damage is dealt, the card is drawn.                        *)
C4_ReplacementLimit ==
  /\ \A key \in (DOMAIN replUseTurn) \cup (DOMAIN replUseGame) :
       ReplUse(S, key) <= cards[key[1]].card.replacements[key[2] + 1].limit.times
  /\ \A id \in DOMAIN cards :
       LET post == resolveEffect(S, 0, NoId, DealDamage(AnyBF, 1), <<id>>)
       IN (/\ cards[id].zone = "BF" /\ cards[id].card.hasStats
           /\ Exhausted(S, "WouldBeDamaged"))
          => /\ NextTag(S, post) = "takes damage"
             /\ \A key \in ReplacementsOf(S, "WouldBeDamaged") :
                  ReplUse(post, key) = ReplUse(S, key)
  /\ \A pid \in {0, 1} :
       LET post == resolveEffect(S, pid, NoId, Draw("SELF", 1), <<>>)
       IN Exhausted(S, "WouldDraw")
          => NextTag(S, post) \in {"draws a card", "cannot draw and loses"}

(* a replacement that re-raised its own event and is now used up *)
C4_Witness ==
  /\ Get(replUseTurn, <<12, 0>>) = 1 /\ cards[12].zone = "BF" /\ cards[12].damage = 1
  /\ LogCount(log, "Replacement applies", "Warded") = 1

(* C5: an illegal cast is rejected without effect. castFromHand returns   *)
(* ok = FALSE with a reason and leaves the state unchanged when the       *)
(* caster is not the active player, the phase is not MAIN, the hand index *)
(* is out of range or the action points are below the modified cost.      *)
C5_IllegalCastRejected ==
  \A pid \in {0, 1}, i \in (-1)..startingHand :
    LET r == castFromHand(S, pid, i, <<>>)
        hand == players[pid].hand
    IN (\/ turn.active # pid \/ turn.phase # "MAIN"
        \/ i < 0 \/ i >= Len(hand)
        \/ players[pid].ap < castCost(S, pid, hand[i + 1]))
       => ~r.ok /\ r.reason # "" /\ r.st = S

(* C6: an illegal attack is rejected without effect. attack returns       *)
(* ok = FALSE with a reason and leaves the state unchanged when the       *)
(* player is not active, the phase is not COMBAT, the battlefield index   *)
(* is invalid, the card is not a unit, is tapped, is summoning-sick       *)
(* without Haste, has Defender, the target kind is against the policy or  *)
(* the target unit index is invalid.                                      *)
C6_IllegalAttackRejected ==
  \A pid \in {0, 1}, i \in (-1)..(MaxIndex + 1),
     t \in Targets \cup {UnitTarget(-1), UnitTarget(MaxIndex + 1)} :
    LET mine == players[pid].battlefield
        theirs == players[Opp(pid)].battlefield
        r == attack(S, pid, i, t)
    IN (\/ turn.active # pid \/ turn.phase # "COMBAT"
        \/ i < 0 \/ i >= Len(mine)
        \/ ~cards[mine[i + 1]].card.hasStats
        \/ cards[mine[i + 1]].tapped
        \/ (/\ summoningSickness /\ cards[mine[i + 1]].turnEntered = turn.number
            /\ ~hasKeyword(cards[mine[i + 1]], "Haste"))
        \/ hasKeyword(cards[mine[i + 1]], "Defender")
        \/ (attackerTargets = "PlayerOnly" /\ t.kind # "Player")
        \/ (attackerTargets = "UnitOnly" /\ t.kind # "Unit")
        \/ (t.kind = "Unit" /\ (t.index < 0 \/ t.index >= Len(theirs))))
       => ~r.ok /\ r.reason # "" /\ r.st = S

(* the attacker of an accepted attack is tapped and may not attack again *)
C6_Witness ==
  /\ turn.phase = "COMBAT"
  /\ \E i \in 1..Len(players[turn.active].battlefield) :
       cards[players[turn.active].battlefield[i]].tapped
  /\ LogCount(log, "takes damage (player)", PName(Opp(turn.active))) > 0

(* C7: end-of-turn cleanup is complete. After endTurn no card, in any     *)
(* zone of either player, carries an end-of-turn ATK/HP buff or an        *)
(* end-of-turn transform, and the end-of-turn prevention pool is empty.   *)
C7_EndOfTurnCleanup ==
  LET post == endTurn(S)
  IN /\ \A id \in DOMAIN post.cards :
          /\ post.cards[id].bonusAtkEOT = 0 /\ post.cards[id].bonusHpEOT = 0
          /\ ~post.cards[id].transformEOT.set
     /\ post.preventEOT = EmptyMap

(* C8: end-of-turn control revert. After endTurn every card whose         *)
(* controller was changed during the turn, once or several times, is      *)
(* owned by the player who owned it before the first change and is        *)
(* listed in that player's zone list, and the control-revert map is empty.*)
C8_ControlRevert ==
  LET post == endTurn(S)
  IN /\ post.controlRevertEOT = <<>>
     /\ \A id \in DOMAIN turnOwner :
          /\ post.cards[id].owner = turnOwner[id]
          /\ Contains(getZoneArray(post.players[turnOwner[id]], post.cards[id].zone), id)

(* a card taken and taken back within one turn *)
C8_Witness ==
  \E i \in 1..Len(controlRevertEOT) :
    /\ cards[controlRevertEOT[i][1]].owner = controlRevertEOT[i][2]
    /\ cards[controlRevertEOT[i][1]].zone = "BF"

SurvivalLine == "is indestructible and survives lethal damage"
Survives(st, post, id) ==
  /\ post.cards[id].zone = "BF"
  /\ Contains(post.players[post.cards[id].owner].battlefield, id)
  /\ (/\ post.cards[id].damage > st.cards[id].damage
      /\ effHpMax(post, id) - post.cards[id].damage <= lethalAt)
     => LogCount(post.log, SurvivalLine, st.cards[id].card.name)
          > LogCount(st.log, SurvivalLine, st.cards[id].card.name)
Indestructibles(st) ==
  {id \in DOMAIN st.cards :
     st.cards[id].zone = "BF" /\ hasKeyword(st.cards[id], "Indestructible")}

(* C9: an Indestructible unit on the battlefield never leaves it through  *)
(* damage. For every amount, dealt by an effect or in combat, by a source *)
(* with or without Deathtouch, the unit stays on the battlefield, the log *)
(* records that it is indestructible when the damage landed is lethal,    *)
(* and no "dies" line is ever written for it.                             *)
C9_IndestructibleStays ==
  /\ \A id \in Indestructibles(S) :
       /\ LogCount(log, "dies", cards[id].card.name) = 0
       /\ \A n \in 0..MaxDamage,
             src \in {NoId} \cup {c \in DOMAIN cards : cards[c].zone = "BF"} :
            Survives(S, resolveEffect(S, Opp(cards[id].owner), src,
                                      DealDamage(AnyBF, n), <<id>>), id)
  /\ \A pid \in {0, 1}, i \in Indexes, j \in Indexes :
       (j < Len(players[Opp(pid)].battlefield)
        /\ players[Opp(pid)].battlefield[j + 1] \in Indestructibles(S))
       => Survives(S, attack(S, pid, i, UnitTarget(j)).st,
                   players[Opp(pid)].battlefield[j + 1])

(* an Indestructible unit carrying lethal damage on the battlefield *)
C9_Witness ==
  \E id \in Indestructibles(S) :
    /\ cards[id].damage >= effHpMax(S, id)
    /\ LogCount(log, SurvivalLine, cards[id].card.name) > 0

(* C10: damage prevention order. Damage n dealt to a unit consumes the    *)
(* permanent pool first and the end-of-turn pool for the remainder; each  *)
(* pool decreases by what it absorbed and not below zero; when the pools  *)
(* absorb all of n, the card and both players are unchanged and the only  *)
(* consequence is one "damage prevented" log line.                        *)
C10_PreventionOrder ==
  \A id \in DOMAIN cards, n \in 1..MaxDamage,
     src \in {NoId} \cup {c \in DOMAIN cards : cards[c].zone = "BF"} :
    LET p == Get(preventPERM, id)
        e == Get(preventEOT, id)
        useP == Min(n, p)
        useE == Min(n - useP, e)
        post == resolveEffect(S, 0, src, DealDamage(AnyBF, n), <<id>>)
    IN (/\ cards[id].zone = "BF" /\ cards[id].card.hasStats
        /\ NoReplacementOf(S, "WouldBeDamaged"))
       => /\ Get(post.preventPERM, id) = p - useP /\ p - useP >= 0
          /\ Get(post.preventEOT, id) = e - useE /\ e - useE >= 0
          /\ (useP + useE = n)
             => /\ post.cards = cards /\ post.players = players
                /\ post.winner = winner /\ post.eventsGame = eventsGame
                /\ post.log = Append(log, Line("damage prevented",
                                               cards[id].card.name, n, 0))

(* one point of damage has emptied the permanent pool, not the other *)
C10_Witness ==
  \E id \in DOMAIN preventPERM :
    /\ preventPERM[id] = 0 /\ Get(preventEOT, id) = 1
    /\ LogCount(log, "damage prevented", cards[id].card.name) = 1

MaxDraw == 2

(* C11: drawing from an empty library. When a player whose library is     *)
(* empty must draw and no WouldDraw replacement applies, the other player *)
(* becomes the winner and one "cannot draw and loses" line is written     *)
(* (nothing at all changes when drawFromEmptyLoss is off); no zone list   *)
(* changes and the remaining draws of the same Draw are abandoned.        *)
C11_EmptyLibraryDraw ==
  \A who \in {0, 1}, n \in 1..MaxDraw :
    (players[who].library = <<>> /\ wouldDrawReplacements(S, who) = <<>>)
    => LET post == resolveEffect(S, who, NoId, Draw("SELF", n), <<>>)
       IN IF drawFromEmptyLoss
          THEN post = [S EXCEPT !.winner = Opp(who),
                                !.log = Append(@, Line("cannot draw and loses",
                                                       PName(who), 0, 0))]
          ELSE post = S

(* a player has drawn from an empty library and lost *)
C11_Witness ==
  \E who \in {0, 1} :
    /\ players[who].library = <<>> /\ winner = Opp(who)
    /\ LogCount(log, "cannot draw and loses", PName(who)) >= 1
    /\ wouldDrawReplacements(S, who) = <<>>

PhaseIndex(st) == IndexOf(phases, st.turn.phase)

(* C12: phase progression. advancePhase moves the phase to exactly the    *)
(* next entry of the phase order and changes nothing else but the log; at *)
(* the last phase it is a no-op; casting, attacking and resolving effects *)
(* leave the phase alone, and only endTurn and startTurn bring it back to *)
(* the first phase; advancePhase keeps turn number and active player.     *)
C12_PhaseProgression ==
  /\ PhaseIndex(S) \in 1..Len(phases)
  /\ IF PhaseIndex(S) = Len(phases)
     THEN advancePhase(S) = S
     ELSE advancePhase(S) =
            [S EXCEPT !.turn.phase = phases[PhaseIndex(S) + 1],
                      !.log = Append(@, Line("Phase ->", phases[PhaseIndex(S) + 1],
                                             0, 0))]
  /\ \A pid \in {0, 1}, i \in 0..(startingHand - 1) :
       castFromHand(S, pid, i, <<>>).st.turn = turn
  /\ \A pid \in {0, 1}, i \in Indexes, t \in Targets : attack(S, pid, i, t).st.turn = turn
  /\ \A in \in ResolveInputs(pool) :
       resolveEffect(S, in.controller, in.sourceId, in.eff, in.targets).turn = turn
  /\ endTurn(S).turn.phase = phases[1]
  /\ startTurn(S).turn.phase = phases[1]

(* the phase has been advanced through the whole order *)
C12_Witness ==
  /\ turn.phase = phases[Len(phases)]
  /\ \A k \in 2..Len(phases) : LogCount(log, "Phase ->", phases[k]) = 1

(* C13: endTurn hands the turn over. After endTurn the other player is    *)
(* active, the turn number is one higher, the phase is the first phase    *)
(* and, as the ruleset clears turn-scoped damage, every card on either    *)
(* battlefield has accumulated damage 0.                                  *)
C13_EndTurnHandsOver ==
  LET post == endTurn(S)
  IN /\ post.turn = [number |-> turn.number + 1, active |-> Opp(turn.active),
                     phase |-> phases[1]]
     /\ damagePersistsTurn
        => \A id \in DOMAIN post.cards :
             (\/ post.cards[id].zone = "BF"
              \/ \E pid \in {0, 1} : Contains(post.players[pid].battlefield, id))
             => post.cards[id].damage = 0

(* the second turn has begun and a unit damaged in the first one is clean *)
C13_Witness ==
  /\ turn = [number |-> 2, active |-> 1, phase |-> phases[1]]
  /\ \E id \in DOMAIN cards :
       /\ cards[id].zone = "BF" /\ cards[id].damage = 0
       /\ LogCount(log, "takes damage", cards[id].card.name) >= 1

(* what startTurn does whatever triggers fire: phase, turn line, untap,   *)
(* per-turn counters counted from zero, resource gain, the draw, and the  *)
(* non-active player's AP and tap states                                  *)
StartTurnSteps(st, post) ==
  LET a == st.turn.active
      lib == st.players[a].library
  IN /\ post.turn = [st.turn EXCEPT !.phase = phases[1]]
     /\ Len(post.log) > Len(st.log)
     /\ post.log[Len(st.log) + 1] = Line("-- Turn start --", PName(a), st.turn.number, 0)
     /\ \A i \in 1..Len(st.players[a].battlefield) :
          ~post.cards[st.players[a].battlefield[i]].tapped
     /\ \A key \in DOMAIN post.eventsTurn \cup DOMAIN post.eventsGame :
          Get(post.eventsTurn, key) = Get(post.eventsGame, key) - Get(st.eventsGame, key)
     /\ \A id \in DOMAIN st.cards : \A k \in 1..Len(st.cards[id].card.triggers) :
          LET t == st.cards[id].card.triggers[k]
          IN (t.when = "OnUpkeepStart" /\ st.cards[id].zone = "BF"
              /\ t.condition.kind = "None" /\ t.limit.per = "TURN" /\ t.limit.times > 0)
             => Get(post.triggerUseTurn, <<id, k - 1>>) = 1
     /\ post.players[a].ap =
          (IF carryOver THEN st.players[a].ap + perTurnGainBase ELSE perTurnGainBase)
     /\ drawOnTurnStart
        => IF lib = <<>> /\ post.players[a].library = <<>>
           THEN wouldDrawReplacements(st, a) = <<>> => post.winner = Opp(a)
           ELSE wouldDrawReplacements(st, a) = <<>>
                => Len(post.players[a].hand) > Len(st.players[a].hand)
     /\ post.players[Opp(a)].ap = st.players[Opp(a)].ap
     /\ \A id \in DOMAIN st.cards :
          st.cards[id].owner = Opp(a) => post.cards[id].tapped = st.cards[id].tapped

PerGameUnchanged(st, post) ==
  /\ post.eventsGame = st.eventsGame
  /\ post.triggerUseGame = st.triggerUseGame
  /\ post.replUseGame = st.replUseGame

(* no trigger listens and no replacement applies during startTurn *)
QuietStart(st) ==
  /\ wouldDrawReplacements(st, st.turn.active) = <<>>
  /\ \A id \in DOMAIN st.cards : \A k \in 1..Len(st.cards[id].card.triggers) :
       st.cards[id].card.triggers[k].when
         \notin {"OnUpkeepStart", "OnDraw", "OnNameMatched"}

TargetingEffects ==
  LET sels == {OppBF, AnyBF, Sel("OPP", "BF", -1, None), Sel("OPP", "HAND", -1, None)}
      plain == UNION {{DealDamage(sel, 1), Move(sel, "GY"), Buff(sel, 1, 1, "EOT"),
                       Transform(sel, 1, 1, "PERM"),
                       ChangeController(sel, "SELF", "EOT"),
                       AddCounter(sel, "charge", 1)} : sel \in sels}
  IN plain \cup {ForEach(AnyBF, 2, DealDamage(AnyBF, 1)),
                 Sequence(<<Buff(OppBF, 1, 1, "EOT"), DealDamage(AnyBF, 2)>>)}

(* C15: Hexproof. An effect controlled by player c, resolved directly, as *)
(* a cast effect, as a trigger effect or as a replacement effect, with    *)
(* chosen or with selected targets, leaves every Hexproof card owned by   *)
(* the opponent of c as it was; when that card is the only candidate the  *)
(* effect fizzles and only a log line is written.                         *)
C15_Hexproof ==
  \A c \in {0, 1}, h \in DOMAIN cards :
    (hasKeyword(cards[h], "Hexproof") /\ cards[h].owner = Opp(c))
    => /\ \A eff \in TargetingEffects, chosen \in {<<>>, <<h>>} :
            resolveEffect(S, c, NoId, eff, chosen).cards[h] = cards[h]
       /\ \A i \in 0..(startingHand - 1), chosen \in {<<>>, <<h>>} :
            castFromHand(S, c, i, chosen).st.cards[h] = cards[h]
       /\ \A t \in DOMAIN cards :
            (cards[t].owner = c /\ cards[t].zone = "BF"
             /\ cards[t].card.replacements # <<>>)
            => resolveEffect(S, Opp(c), NoId, DealDamage(AnyBF, 1), <<t>>).cards[h]
                 = cards[h]
       /\ players[Opp(c)].battlefield = <<h>>
          => \A eff \in {DealDamage(OppBF, 1), Move(OppBF, "GY"),
                         ChangeController(OppBF, "SELF", "EOT")},
                chosen \in {<<>>, <<h>>} :
               resolveEffect(S, c, NoId, eff, chosen)
                 = pushLog(S, Line("fizzles", eff.kind, 0, 0))

(* damage aimed at a Hexproof unit by its opponent has fizzled, next to a *)
(* controller whose trigger and replacement cards are in play             *)
C15_Witness ==
  \E h \in DOMAIN cards :
    /\ hasKeyword(cards[h], "Hexproof") /\ cards[h].zone = "BF"
    /\ players[cards[h].owner].battlefield[1] = h
    /\ cards[h].damage = 0
    /\ LogCount(log, "fizzles", "DealDamage") >= 1
    /\ \E t \in DOMAIN cards :
         /\ cards[t].owner = Opp(cards[h].owner) /\ cards[t].zone = "BF"
         /\ cards[t].card.replacements # <<>>

(* the part of n that passes the two prevention pools of id *)
Unprevented(st, id, n) ==
  n - Min(n, Get(st.preventPERM, id))
    - Min(n - Min(n, Get(st.preventPERM, id)), Get(st.preventEOT, id))

(* id has been destroyed by damage of src: it left the battlefield, one   *)
(* more "dies" line names it, and a Lifelink source has given its         *)
(* controller the damage that landed                                      *)
TouchedToDeath(st, post, src, id, landed) ==
  /\ post.cards[id].zone = (IF st.cards[id].isToken THEN tokensLeaveTo ELSE "GY")
  /\ ~Contains(post.players[st.cards[id].owner].battlefield, id)
  /\ LogCount(post.log, "dies", st.cards[id].card.name)
       = LogCount(st.log, "dies", st.cards[id].card.name) + 1
  /\ \A p \in {0, 1} :
       post.players[p].life
         = st.players[p].life
             + (IF p = st.cards[src].owner /\ hasKeyword(st.cards[src], "Lifelink")
                THEN landed ELSE 0)

(* C16: Deathtouch and Lifelink. A positive amount of unprevented damage  *)
(* from a Deathtouch source, dealt by an effect or in combat, destroys a  *)
(* non-Indestructible unit whatever HP it has left (no WouldBeDamaged or  *)
(* WouldDie replacement being in play); the Lifelink gain equals the      *)
(* damage landed and the combat path gives the players and the defender   *)
(* what the effect path gives them.                                       *)
C16_Deathtouch ==
  /\ \A src \in DOMAIN cards, id \in DOMAIN cards, n \in 1..MaxDamage :
       (/\ cards[src].zone = "BF" /\ hasKeyword(cards[src], "Deathtouch")
        /\ cards[id].zone = "BF" /\ cards[id].card.hasStats
        /\ ~hasKeyword(cards[id], "Indestructible")
        /\ NoReplacementOf(S, "WouldBeDamaged") /\ NoReplacementOf(S, "WouldDie")
        /\ Unprevented(S, id, n) > 0)
       => TouchedToDeath(S, resolveEffect(S, cards[src].owner, src,
                                          DealDamage(AnyBF, n), <<id>>),
                         src, id, Unprevented(S, id, n))
  /\ \A pid \in {0, 1}, i \in Indexes, j \in Indexes :
       LET r == attack(S, pid, i, UnitTarget(j))
           a == players[pid].battlefield[i + 1]
           d == players[Opp(pid)].battlefield[j + 1]
           byEffect == resolveEffect(S, pid, a, DealDamage(AnyBF, effAtk(S, a)), <<d>>)
       IN (/\ r.ok /\ hasKeyword(cards[a], "Deathtouch")
           /\ ~hasKeyword(cards[d], "Indestructible") /\ cards[d].card.hasStats
           /\ NoReplacementOf(S, "WouldBeDamaged") /\ NoReplacementOf(S, "WouldDie")
           /\ Unprevented(S, d, effAtk(S, a)) > 0)
          => /\ TouchedToDeath(S, r.st, a, d, Unprevented(S, d, effAtk(S, a)))
             /\ r.st.players = byEffect.players
             /\ r.st.cards[d] = byEffect.cards[d]
  /\ \A pid \in {0, 1}, i \in Indexes :
       LET r == attack(S, pid, i, PlayerTarget)
           a == players[pid].battlefield[i + 1]
       IN (r.ok /\ hasKeyword(cards[a], "Lifelink") /\ effAtk(S, a) > 0)
          => /\ r.st.players[pid].life = players[pid].life + effAtk(S, a)
             /\ r.st.players[Opp(pid)].life = players[Opp(pid)].life - effAtk(S, a)

(* a unit that had HP left after the damage of a Deathtouch and Lifelink  *)
(* source has died, and the controller of the source has gained life      *)
C16_Witness ==
  \E k \in 1..(Len(log) - 2) :
    /\ log[k].tag = "takes damage" /\ log[k].b > 0
    /\ log[k + 1].tag = "gains life (Lifelink)"
    /\ log[k + 2].tag = "dies" /\ log[k + 2].name = log[k].name
    /\ \E p \in {0, 1} : players[p].life > startingLife

(* the position of id on the battlefield of pid, counted from 0 *)
BfIndex(st, pid, id) == IndexOf(st.players[pid].battlefield, id) - 1

(* what a successful attack leaves: a Vigilance attacker is untapped and  *)
(* its next attack is accepted; any other attacker is tapped and each     *)
(* further attack with it is refused as 'Tapped' without a change         *)
AfterAttack(st, post, pid, a) ==
  post.cards[a].zone = "BF"
  => IF hasKeyword(st.cards[a], "Vigilance")
     THEN /\ ~post.cards[a].tapped
          /\ attack(post, pid, BfIndex(post, pid, a), PlayerTarget).ok
     ELSE /\ post.cards[a].tapped
          /\ \A t \in Targets :
               attack(post, pid, BfIndex(post, pid, a), t) = Rejected(post, "Tapped")

AttackTaps ==
  \A pid \in {0, 1}, i \in Indexes, t \in Targets :
    attack(S, pid, i, t).ok
    => AfterAttack(S, attack(S, pid, i, t).st, pid, players[pid].battlefield[i + 1])

(* a tapped unit is refused; the start of its controller's turn untaps   *)
(* it; the other player's turn start, a phase change, the end of the     *)
(* turn and a cast leave it tapped                                       *)
TappedRefused ==
  \A u \in DOMAIN cards :
    (cards[u].zone = "BF" /\ cards[u].tapped /\ cards[u].card.hasStats)
    => /\ \A t \in Targets :
            LET r == attack(S, cards[u].owner, BfIndex(S, cards[u].owner, u), t)
            IN /\ ~r.ok /\ r.st = S
               /\ (turn.active = cards[u].owner /\ turn.phase = "COMBAT")
                  => r.reason = "Tapped"
       /\ turn.active = cards[u].owner => ~startTurn(S).cards[u].tapped
       /\ turn.active # cards[u].owner => startTurn(S).cards[u].tapped
       /\ advancePhase(S).cards[u].tapped /\ endTurn(S).cards[u].tapped
       /\ \A pid \in {0, 1}, i \in 0..(startingHand - 1) :
            LET post == castFromHand(S, pid, i, <<>>).st
            IN post.cards[u].zone = "BF" => post.cards[u].tapped

(* a step that untaps a unit staying on the battlefield is the start of   *)
(* a turn of its controller                                               *)
UntappedOnlyByTurnStart ==
  \A u \in DOMAIN cards :
    (/\ cards[u].zone = "BF" /\ cards[u].tapped
     /\ cards'[u].zone = "BF" /\ ~cards'[u].tapped)
    => /\ turn'.active = cards[u].owner
       /\ LogCount(log', "-- Turn start --", PName(cards[u].owner))
            > LogCount(log, "-- Turn start --", PName(cards[u].owner))

(* C17: attacking taps. After a successful attack a unit without          *)
(* Vigilance is tapped and its further attacks are refused as 'Tapped';   *)
(* it stays tapped until a start of its controller's turn untaps it; a    *)
(* unit with Vigilance stays untapped and may attack again at once.       *)
C17_AttackTaps ==
  /\ [](AttackTaps /\ TappedRefused)
  /\ [][UntappedOnlyByTurnStart]_vars

(* a unit without Vigilance has attacked and is tapped *)
C17_Witness ==
  \E u \in DOMAIN cards :
    /\ cards[u].zone = "BF" /\ cards[u].tapped /\ ~hasKeyword(cards[u], "Vigilance")
    /\ LogCount(log, "hits", cards[u].card.name) >= 1
    /\ turn.phase = "COMBAT" /\ turn.active = cards[u].owner

(* the cards on the battlefield of post that were not on it in st *)
EnteredNow(st, post) ==
  {u \in DOMAIN post.cards :
     post.cards[u].zone = "BF" /\ (HasCard(st, u) => st.cards[u].zone # "BF")}

(* the states one battlefield entry away: a cast, a token creation, a     *)
(* move from the hand and a return from the graveyard                     *)
Entries ==
  {castFromHand(S, pid, i, <<>>).st : pid \in {0, 1}, i \in 0..(startingHand - 1)}
    \cup {resolveEffect(S, pid, NoId, eff, <<>>) :
            pid \in {0, 1},
            eff \in {CreateToken("SELF", 1, 1),
                     Move(Sel("SELF", "HAND", 1, PTrue), "BF"),
                     Move(Sel("SELF", "GY", 1, PTrue), "BF")}}

(* C18: summoning sickness. With the rule enabled, a unit without Haste   *)
(* is refused every attack in the turn it entered the battlefield, be it  *)
(* cast, created as a token, moved there by an effect or returned there;  *)
(* a unit with Haste that entered in its controller's combat may attack.  *)
C18_SummoningSickness ==
  summoningSickness =>
    \A post \in Entries :
      \A u \in EnteredNow(S, post) :
        LET pid == post.cards[u].owner
        IN post.cards[u].card.hasStats
           => IF hasKeyword(post.cards[u], "Haste")
              THEN (post.turn.active = pid /\ post.turn.phase = "COMBAT"
                    /\ ~hasKeyword(post.cards[u], "Defender"))
                   => attack(post, pid, BfIndex(post, pid, u), PlayerTarget).ok
              ELSE \A t \in Targets :
                     ~attack(post, pid, BfIndex(post, pid, u), t).ok

(* the actions offered to the pure reducer in the current state *)
CounterActions ==
  {[kind |-> "resolve", controller |-> 0, source |-> NoId, effect |-> eff,
    targets |-> <<>>] :
     eff \in {AddCounter(AnyBF, "charge", 1),
              [kind |-> "RemoveCounter", target |-> AnyBF, counter |-> "charge",
               n |-> Const(1)]}}

EngineActions ==
  {[kind |-> k] : k \in {"startTurn", "advancePhase", "endTurn"}}
    \cup {[kind |-> "setAP", pid |-> pid, ap |-> 1] : pid \in {0, 1}}
    \cup {[kind |-> "setLife", pid |-> pid, life |-> 1] : pid \in {0, 1}}
    \cup {[kind |-> "cast", pid |-> cards[id].owner, handId |-> id, targets |-> <<>>] :
            id \in {c \in DOMAIN cards : cards[c].zone = "HAND"}}
    \cup {[kind |-> "resolve", controller |-> in.controller, source |-> in.sourceId,
           effect |-> in.eff, targets |-> in.targets] : in \in ResolveInputs(pool)}
    \cup CounterActions
    \cup {[kind |-> "attack", pid |-> cards[id].owner, attackerId |-> id,
           target |-> [kind |-> "Player"]] :
            id \in {c \in DOMAIN cards : cards[c].zone = "BF"}}

(* C19: the pure reducer leaves its input as it was. After reduce(s, a)   *)
(* and after reduceAll(s, <<a, b>>) the argument s equals, field by       *)
(* field, the state it was before the call, counters maps included.       *)
C19_ReduceKeepsInput ==
  /\ \A a \in EngineActions : reduce(S, a).input = S
  /\ \A a \in CounterActions, b \in CounterActions : reduceAll(S, <<a, b>>).input = S

(* effect trees over every selector zone *)
PlanZones == {"NONE", "BF", "HAND", "GY", "LIB", "EXILE", "STACK"}
PlanEffects ==
  LET sels == {Sel("ANY", z, -1, None) : z \in PlanZones}
                \cup {Sel("OPP", z, 1, PTrue) : z \in PlanZones}
      plain == UNION {{DealDamage(sel, 1), Move(sel, "GY"), Buff(sel, 1, 1, "EOT"),
                       AddCounter(sel, "charge", 1), Heal(sel, 1),
                       ForEach(sel, 2, DealDamage(AnyBF, 1))} : sel \in sels}
  IN plain
       \cup {Sequence(<<e, Draw("SELF", 1)>>) : e \in plain}
       \cup {Draw("SELF", 1), CreateToken("SELF", 1, 1), Move(AnyBF, "STACK")}

(* C20: planning is read-only. Computing the plan of an effect, with its  *)
(* target selection, legality checks and evaluations, leaves every field  *)
(* of the GameState as it was, the log included, for every effect tree    *)
(* and every selector zone.                                               *)
C20_PlanningReadOnly ==
  \A c \in {0, 1}, eff \in PlanEffects,
     chosen \in {<<>>} \cup {<<id>> : id \in DOMAIN cards} :
    afterPlanning(S, planEffect(S, c, NoId, eff, chosen)) = S

(* the cards a player can take control of, not yet under a revert record *)
Takeable(pid) ==
  {id \in DOMAIN cards :
     /\ cards[id].zone = "BF" /\ cards[id].owner = Opp(pid)
     /\ ~hasKeyword(cards[id], "Hexproof") /\ ~HasRevert(S, id)}

(* C29: only end-of-turn control changes revert. A ChangeController of    *)
(* duration PERM records nothing in the control-revert map and the card   *)
(* is owned by its new controller after endTurn; one of duration EOT is   *)
(* recorded and endTurn gives the card back.                              *)
C29_OnlyEotReverts ==
  \A pid \in {0, 1} :
    \A id \in Takeable(pid) :
      LET perm == resolveEffect(S, pid, NoId, ChangeController(AnyBF, "SELF", "PERM"), <<id>>)
          eot == resolveEffect(S, pid, NoId, ChangeController(AnyBF, "SELF", "EOT"), <<id>>)
      IN /\ perm.cards[id].owner = pid
         /\ perm.controlRevertEOT = controlRevertEOT
         /\ endTurn(perm).cards[id].owner = pid
         /\ eot.cards[id].owner = pid
         /\ eot.controlRevertEOT = Append(controlRevertEOT, <<id, Opp(pid)>>)
         /\ endTurn(eot).cards[id].owner = Opp(pid)

(* the four buff layers of a card *)
Layers(rc) == <<rc.bonusAtkPerm, rc.bonusHpPerm, rc.bonusAtkEOT, rc.bonusHpEOT>>

(* C30: buff durations use separate layers. A Buff of duration PERM adds  *)
(* its deltas to the permanent layer only and they are in force after     *)
(* endTurn; a Buff of duration EOT adds to the end-of-turn layer only     *)
(* and endTurn removes it.                                                *)
C30_BuffLayers ==
  \A id \in DOMAIN cards :
    (cards[id].zone = "BF" /\ cards[id].card.hasStats)
    => LET own == cards[id].owner
           now == Layers(cards[id])
           perm == resolveEffect(S, own, NoId, Buff(AnyBF, 1, 2, "PERM"), <<id>>)
           eot == resolveEffect(S, own, NoId, Buff(AnyBF, 1, 2, "EOT"), <<id>>)
       IN /\ Layers(perm.cards[id]) = <<now[1] + 1, now[2] + 2, now[3], now[4]>>
          /\ Layers(endTurn(perm).cards[id]) = <<now[1] + 1, now[2] + 2, 0, 0>>
          /\ Layers(eot.cards[id]) = <<now[1], now[2], now[3] + 1, now[4] + 2>>
          /\ Layers(endTurn(eot).cards[id]) = <<now[1], now[2], 0, 0>>

MaxDeclared == 4

(* the number of operations planned for an effect of player 0 *)
PlanLength(eff) == Len(plannedOps(planEffect(S, 0, NoId, eff, <<>>)))

(* C28: defensive caps at interpretation time. A Repeat plans its body at *)
(* most MAX_REPEAT times and a ForEach plans its body for at most         *)
(* MAX_FOREACH_TARGETS targets, also when the effect tree declares more.  *)
C28_DefensiveCaps ==
  \A n \in 1..MaxDeclared :
    /\ PlanLength([kind |-> "Repeat", times |-> n, body |-> Draw("SELF", 1)])
         = Min(n, MAX_REPEAT)
    /\ PlanLength(ForEach(Sel("ANY", "HAND", -1, None), n, Draw("SELF", 1)))
         <= Min(n, MAX_FOREACH_TARGETS)

(* token t is in the token-leave zone of the player who owned it in st,   *)
(* and in no other zone list                                              *)
InLeaveZone(st, post, t) ==
  /\ post.cards[t].zone = tokensLeaveTo
  /\ Contains(getZoneArray(post.players[st.cards[t].owner], tokensLeaveTo), t)
  /\ Occurrences(post, t) = 1

TokensOnBattlefield == {t \in DOMAIN cards : cards[t].isToken /\ cards[t].zone = "BF"}

(* a token moved by an effect to any zone, or damaged to death *)
TokenLeaves ==
  \A t \in TokensOnBattlefield :
    /\ \A c \in {0, 1}, z \in {"HAND", "LIB", "GY", "EXILE"} :
         InLeaveZone(S, resolveEffect(S, c, NoId, Move(AnyBF, z), <<t>>), t)
    /\ \A c \in {0, 1}, n \in 1..MaxDamage :
         LET post == resolveEffect(S, c, NoId, DealDamage(AnyBF, n), <<t>>)
         IN post.cards[t].zone # "BF" => InLeaveZone(S, post, t)

(* a step that takes a token off the battlefield *)
TokenLeftTo ==
  \A t \in TokensOnBattlefield :
    cards'[t].zone # "BF"
    => /\ cards'[t].zone = tokensLeaveTo
       /\ Contains(getZoneArray(players'[cards[t].owner], tokensLeaveTo), t)

(* C26: token leave zone. A token that leaves the battlefield, destroyed  *)
(* or moved by an effect to the hand, the library, the graveyard or the   *)
(* exile, ends in the configured token-leave zone of its current owner,   *)
(* whatever destination was requested.                                    *)
C26_TokenLeaveZone == [](TokenLeaves) /\ [][TokenLeftTo]_vars

(* a token was sent to the hand by an effect and lies in the leave zone   *)
(* without having died                                                    *)
C26_Witness ==
  \E t \in DOMAIN cards :
    /\ cards[t].isToken /\ cards[t].zone = tokensLeaveTo
    /\ Contains(getZoneArray(players[cards[t].owner], tokensLeaveTo), t)
    /\ LogCount(log, "dies", cards[t].card.name) = 0
    /\ tokensLeaveTo # "HAND"

(* the positions, in scan order, of the battlefield replacements of an    *)
(* event that are not used up and whose subject matches                   *)
LiveFor(when, id, who) ==
  LET all == listActiveReplacements(S)
  IN {i \in 1..Len(all) :
        /\ all[i].repl.when = when
        /\ replUsed(S, all[i]) < all[i].repl.limit.times
        /\ IF when = "WouldDraw"
           THEN who = (IF all[i].repl.subject.owner = "OPP"
                       THEN Opp(cards[all[i].host].owner) ELSE cards[all[i].host].owner)
           ELSE isLegalTarget(S, cards[all[i].host].owner, all[i].repl.subject, id,
                              all[i].host)}

(* the substituted effect of the first of them, and nothing else *)
OnlyFirst(when, id, who, tag, chosen) ==
  LET c == listActiveReplacements(S)[CHOOSE i \in LiveFor(when, id, who) :
                                       \A j \in LiveFor(when, id, who) : i <= j]
  IN applyPlan(S, <<LogOp(Line(tag, cards[c.host].card.name, who, 0)),
                    [kind |-> "IncReplacementUsage", key |-> <<c.host, c.index>>,
                     per |-> c.repl.limit.per]>>
                  \o planEffect(S, cards[c.host].owner, c.host, c.repl.instead, chosen))

(* C25: at most one replacement per event. A would-be-damaged, would-die  *)
(* or would-draw event is answered by the substituted effect of the first *)
(* battlefield replacement, in scan order, that matches and is not used   *)
(* up, and then the damage, the death or the draw itself does not happen; *)
(* when there is none the event happens unchanged.                        *)
C25_OneReplacement ==
  /\ \A id \in DOMAIN cards, n \in 1..MaxDamage :
       (cards[id].zone = "BF" /\ cards[id].card.hasStats)
       => /\ dealDamageToPermanent(S, id, n, NoId)
               = IF LiveFor("WouldBeDamaged", id, 0) # {}
                 THEN OnlyFirst("WouldBeDamaged", id, 0, "Replacement applies", <<id>>)
                 ELSE damageUnlessReplaced(S, id, n, NoId, FALSE)
          /\ destroyPermanent(S, id)
               = IF LiveFor("WouldDie", id, 0) # {}
                 THEN OnlyFirst("WouldDie", id, 0, "Replacement applies", <<id>>)
                 ELSE die(S, id, FALSE)
  /\ \A who \in {0, 1} :
       topDraw(S, who, 1)
         = IF LiveFor("WouldDraw", NoId, who) # {}
           THEN OnlyFirst("WouldDraw", NoId, who, "Replacement (WouldDraw) applies", <<>>)
           ELSE drawOne(S, who, 1, FALSE)

(* two replacements of the same event were in play: the first in scan     *)
(* order answered the damage and the second was not used                  *)
C25_Witness ==
  /\ cards[10].zone = "BF" /\ cards[12].zone = "BF"
  /\ Get(replUseTurn, <<10, 0>>) = 1 /\ Get(replUseTurn, <<12, 0>>) = 0
  /\ LogCount(log, "Replacement applies", "Aegis") = 1
  /\ LogCount(log, "Replacement applies", "Warded") = 0
  /\ cards[12].damage = 0

(* C27: determinism. Two matches in the same state that are driven by the *)
(* same public operation are in the same state afterwards, with the same  *)
(* zone contents in the same order, the same card ids, life, AP and log;  *)
(* for the mulligan this is the same state whatever the random generator  *)
(* of its shuffle returns.                                                *)
C27_Determinism ==
  \A pid \in {0, 1} : \A r1, r2 \in 0..(RngSteps - 1) :
    mulliganLondon(S, pid, r1) = mulliganLondon(S, pid, r2)

(* the distinct cards of the two decks of the pool, in deck order: the    *)
(* card set handed to the analyzer                                        *)
PoolCards ==
  LET all == Decks(pool).a \o Decks(pool).b
      firsts == {i \in 1..Len(all) : \A j \in 1..(i - 1) : all[j] # all[i]}
  IN [k \in 1..Cardinality(firsts) |->
        all[CHOOSE i \in firsts : Cardinality({j \in firsts : j < i}) = k - 1]]

CycleReported(cs) ==
  \E i \in 1..Len(analyzeGlobal(cs).issues) :
    analyzeGlobal(cs).issues[i].code = "EVENT_CYCLE_UNBOUNDED"

(* C23: the death-token scenario. For a card set with a trigger that      *)
(* creates a token each time a unit dies, the token being created dead    *)
(* (its HP is not above the lethal threshold), analyzeGlobal reports an   *)
(* EVENT_CYCLE_UNBOUNDED error when the limit of the trigger is above the *)
(* trigger ceiling and reports ok when the limit is under it.             *)
C23_DeathToken ==
  \A c \in 1..Len(PoolCards) : \A t \in 1..Len(PoolCards[c].triggers) :
    LET tr == PoolCards[c].triggers[t]
    IN (tr.when = "OnDeath" /\ tr.effect.kind = "CreateToken" /\ tr.effect.hp <= lethalAt)
       => IF tr.limit.times > MAX_TRIGGER_CREDITS_PER_RESOLUTION
          THEN CycleReported(PoolCards) /\ ~analyzeGlobal(PoolCards).ok
          ELSE analyzeGlobal(PoolCards).ok

RECURSIVE ProductOf(_)
ProductOf(ns) == IF Len(ns) = 0 THEN 1 ELSE Head(ns) * ProductOf(Tail(ns))

(* the simple cycles of the event graph, each a sequence of edge          *)
(* positions: every edge ends where the next one starts, the last ends    *)
(* where the first starts, and no node is left twice                      *)
Cycles(edges) ==
  {f \in UNION {[1..k -> 1..Len(edges)] : k \in 1..Len(edges)} :
     /\ \A i \in DOMAIN f : edges[f[i]].to = edges[f[(i % Len(f)) + 1]].from
     /\ \A i, j \in DOMAIN f : i # j => edges[f[i]].from # edges[f[j]].from}

HeavyCycle(edges) ==
  \E f \in Cycles(edges) :
    \/ SumOf([i \in DOMAIN f |-> edges[f[i]].limit]) > MAX_TRIGGER_CREDITS_PER_RESOLUTION
    \/ ProductOf([i \in DOMAIN f |-> edges[f[i]].multiplicity])
         > MAX_SPAWN_CREDITS_PER_RESOLUTION

(* C24: the cycle check. analyzeGlobal reports EVENT_CYCLE_UNBOUNDED if   *)
(* and only if the event graph of the cards' triggers has a cycle whose   *)
(* own edges have a limit sum above the trigger ceiling or a multiplicity *)
(* product above the spawn ceiling, every cycle being considered, those   *)
(* through parallel edges of different cards too.                         *)
C24_CycleCheck == CycleReported(PoolCards) <=> HeavyCycle(edgesOf(PoolCards))

(* the number of trigger firings counted by the usage maps of a state *)
RECURSIVE TotalOf(_)
TotalOf(m) ==
  IF DOMAIN m = {} THEN 0
  ELSE LET k == CHOOSE x \in DOMAIN m : TRUE
       IN m[k] + TotalOf([x \in (DOMAIN m) \ {k} |-> m[x]])

Fired(st) == TotalOf(st.triggerUseTurn) + TotalOf(st.triggerUseGame)

(* the states one public operation leaves, the turn's usage kept *)
ChainResults ==
  {castFromHand(S, pid, i, <<>>).st : pid \in {0, 1}, i \in 0..(startingHand - 1)}
  \cup {resolveEffect(S, in.controller, in.sourceId, in.eff, in.targets) :
          in \in ResolveInputs(pool)}
  \cup {attack(S, pid, i, t).st : pid \in {0, 1}, i \in Indexes, t \in Targets}
  \cup {startTurn(S), advancePhase(S)}

AnalyzerPasses ==
  /\ \A c \in 1..Len(PoolCards) : analyzeCard(PoolCards[c]).ok
  /\ analyzeGlobal(PoolCards).ok

(* C22: the credit bound at run time. In a pool that passes analyzeCard   *)
(* for every card and analyzeGlobal, the chain started by one public      *)
(* operation fires at most MAX_TRIGGER_CREDITS_PER_RESOLUTION triggers    *)
(* and creates at most MAX_SPAWN_CREDITS_PER_RESOLUTION tokens.           *)
C22_CreditBound ==
  AnalyzerPasses
  => \A post \in ChainResults :
       /\ Fired(post) - Fired(S) <= MAX_TRIGGER_CREDITS_PER_RESOLUTION
       /\ post.nextId - nextId <= MAX_SPAWN_CREDITS_PER_RESOLUTION

(* the firings the usage limits still allow: for every trigger and        *)
(* replacement of every card, its limit less its usage, never below zero  *)
Left(defs, turnUse, gameUse, id) ==
  SumOf([d \in 1..Len(defs) |->
           Max(0, defs[d].limit.times
                    - Get(IF defs[d].limit.per = "TURN" THEN turnUse ELSE gameUse,
                          <<id, d - 1>>))])

Credit(st) ==
  SumOf([id \in 1..(st.nextId - 1) |->
           Left(st.cards[id].card.triggers, st.triggerUseTurn, st.triggerUseGame, id)
           + Left(st.cards[id].card.replacements, st.replUseTurn, st.replUseGame, id)])

TriggerEvents ==
  {"OnEnter", "OnTokenCreated", "OnDraw", "OnDamageDealt", "OnAttack", "OnDeath",
   "OnCast", "OnUpkeepStart", "OnNameMatched"}

(* a plan that is not empty pays: the usage operation at its head takes   *)
(* one firing from the credit before any effect of the plan is applied    *)
PaysFirst(plan, n, credit) ==
  Len(plan) > 0 => Credit(applyOps(S, SubSeq(plan, 1, n))) = credit - 1

PlansPay ==
  /\ \A when \in TriggerEvents, id \in DOMAIN cards :
       PaysFirst(planTriggers(S, when, SubjectCtx(id)), 1, Credit(S))
  /\ \A when \in {"WouldBeDamaged", "WouldDie", "WouldDraw"}, id \in DOMAIN cards :
       PaysFirst(planReplacement(S, when, id, cards[id].owner), 2, Credit(S))

(* C21: every public operation terminates. castFromHand, attack,          *)
(* resolveEffect, advancePhase, startTurn and endTurn each leave a state, *)
(* all nested trigger and replacement chains included: every plan that    *)
(* is not empty takes one firing from the finite credit of the usage      *)
(* limits before it applies an effect, and no operation of a chain gives  *)
(* credit back, so a chain is over when the credit is used up.            *)
C21_Terminates ==
  /\ PlansPay
  /\ \A post \in ChainResults \ {startTurn(S)} :
       /\ Credit(post) <= Credit(S)
       /\ Fired(post) >= Fired(S)
  /\ startTurn(S).turn.number >= turn.number
  /\ endTurn(S).turn.number >= turn.number

(* a chain of nested firings has run: a replacement answered the damage   *)
(* of an effect, or a trigger fired more than once, and credit is used    *)
C21_Witness ==
  /\ Credit(S) < Credit(initGame(Decks(pool).a, Decks(pool).b))
  /\ \/ TotalOf(replUseTurn) + TotalOf(replUseGame) >= 1
     \/ Fired(S) >= 2

(* the orders a card list can be handed over in *)
Orders(n) == {p \in [1..n -> 1..n] : \A i, j \in 1..n : i # j => p[i] # p[j]}

CycleFindings(cs) ==
  {analyzeGlobal(cs).issues[i] : i \in {k \in 1..Len(analyzeGlobal(cs).issues) :
                                           analyzeGlobal(cs).issues[k].code
                                             = "EVENT_CYCLE_UNBOUNDED"}}

(* the cards of a finding, as a set: what the finding is about whatever   *)
(* order its cycle was walked in                                          *)
FindingCards(cs) ==
  {{f.cards[i] : i \in 1..Len(f.cards)} : f \in CycleFindings(cs)}

(* C40: the verdict of the analyzer is order-independent. For every       *)
(* order of the card list, analyzeGlobal returns the same ok verdict and  *)
(* the same set of EVENT_CYCLE_UNBOUNDED findings.                        *)
C40_OrderIndependent ==
  \A p \in Orders(Len(PoolCards)) :
    LET cs == [i \in 1..Len(PoolCards) |-> PoolCards[p[i]]]
    IN /\ analyzeGlobal(cs).ok = analyzeGlobal(PoolCards).ok
       /\ FindingCards(cs) = FindingCards(PoolCards)

(* the states one more public operation leaves *)
PublicResults == ChainResults \cup {endTurn(S)}

(* C38: the winner is final. Once winner is set, by a draw from an empty  *)
(* library or by a life total of 0 or less, no later public operation     *)
(* changes it to the other player or clears it.                           *)
C38_WinnerFinal ==
  winner # NoPlayer => \A post \in PublicResults : post.winner = winner

(* the cards a resolution touched *)
Affected(post) == {id \in DOMAIN cards : post.cards[id] # cards[id]}
(* lists of two battlefield units of one player *)
ChosenPairs(pid) ==
  LET bf == players[pid].battlefield
  IN {<<bf[i], bf[j]>> : i \in 1..Len(bf), j \in 1..Len(bf)}

(* C36: a selector's max = k bounds the affected set to at most k distinct *)
(* cards, also when the caller passes a chosen-target list longer than k:  *)
(* DealDamage with max = 1 and two chosen targets touches at most one card *)
C36_MaxBoundsChosen ==
  \A chosen \in ChosenPairs(1) :
    Cardinality(Affected(resolveEffect(S, 0, NoId, DealDamage(OppBF, 1), chosen))) <= 1

(* one lethal hit on a battlefield unit of player 1 *)
LethalHit(x) == resolveEffect(S, 0, NoId, DealDamage(OppBF, 3), <<x>>)

(* C35: damage only lands on battlefield units. When the first step of a   *)
(* Sequence removes its target from the battlefield, a later step planned  *)
(* against the same target adds no damage to it, and neither does a second *)
(* mention of the same id in the chosen list                               *)
C35_DamageOnBattlefieldOnly ==
  \A i \in 1..Len(players[1].battlefield) :
    LET x == players[1].battlefield[i]
        steps == Sequence(<<DealDamage(OppBF, 3), DealDamage(OppBF, 1)>>)
    IN LethalHit(x).cards[x].zone # "BF"
       => /\ resolveEffect(S, 0, NoId, steps, <<x>>).cards[x].damage
               = LethalHit(x).cards[x].damage
          /\ resolveEffect(S, 0, NoId, DealDamage(OppBF, 3), <<x, x>>).cards[x].damage
               = LethalHit(x).cards[x].damage

(* the state after a Buff of -3 ATK on every battlefield unit *)
Weakened == resolveEffect(S, 0, NoId, Buff(AnyBF, -3, 0, "EOT"), <<>>)

(* C39: a successful attack never increases the defending player's life    *)
(* and never decreases the defending unit's damage, whatever the effective *)
(* ATK of the attacker, an ATK made negative by a buff included            *)
C39_AttackNeverHeals ==
  \A pid \in {0, 1}, i \in Indexes, t \in Targets :
    LET post == attack(Weakened, pid, i, t)
    IN post.ok
       => /\ post.st.players[Opp(pid)].life <= Weakened.players[Opp(pid)].life
          /\ \A id \in DOMAIN Weakened.cards :
               Weakened.cards[id].owner = Opp(pid)
                 => post.st.cards[id].damage >= Weakened.cards[id].damage

(* C34: the zone field of every card agrees with the zone lists after any  *)
(* sequence of public operations, mulliganLondon included: the card's id   *)
(* is in the list of its zone of the player who owns it                    *)
C34_ZoneAgreement ==
  \A id \in DOMAIN cards :
    Contains(getZoneArray(players[cards[id].owner], cards[id].zone), id)

(* no replacement has answered an event so far, so no unit was saved *)
NoneSaved == TotalOf(replUseTurn) + TotalOf(replUseGame) = 0

(* C37: at the end of every public operation no battlefield unit without   *)
(* Indestructible has (effective maximum HP - damage) at or below the      *)
(* lethal threshold, unless a WouldDie replacement saved it; also after    *)
(* the provider of a StaticBuff to HP has left the battlefield             *)
C37_NoLethalUnitStays ==
  \A id \in DOMAIN cards :
    (/\ cards[id].zone = "BF" /\ cards[id].card.hasStats
     /\ ~hasKeyword(cards[id], "Indestructible") /\ NoneSaved)
    => effHpMax(S, id) - cards[id].damage > lethalAt

(* the stat changes resolved by player 0: a Buff, a Transform, and a       *)
(* CopyStats from the opponent's first unit clamped to 0 HP                *)
StatChanges ==
  {Buff(AnyBF, 0, -2, "EOT"), Transform(AnyBF, 1, 1, "EOT"),
   [kind |-> "CopyStats", from |-> OppBF, to |-> SelfBF,
    clamp |-> [atkMin |-> 0, atkMax |-> 1, hpMin |-> 0, hpMax |-> 0],
    duration |-> "EOT"]}

(* the battlefield units a stat change of player 0 reaches *)
Changed(eff) ==
  {id \in DOMAIN cards :
     /\ cards[id].zone = "BF" /\ cards[id].card.hasStats
     /\ eff.kind = "CopyStats"
        => cards[id].owner = 0 /\ players[1].battlefield # <<>>}

(* HP left in st, with static buffs counted as on the battlefield *)
HpLeft(st, id) ==
  effHpMax([st EXCEPT !.cards[id].zone = "BF"], id) - st.cards[id].damage

(* C32: after Buff, Transform or CopyStats on a battlefield unit, a unit   *)
(* whose (maximum HP - damage) is at or below the lethal threshold is      *)
(* destroyed through the destroy path (a live WouldDie replacement answers *)
(* instead and the unit stays; else a "dies" line, the UnitDied count, the *)
(* move to the graveyard), unless it is Indestructible: then it stays and  *)
(* a log line records it. A unit with HP left stays.                       *)
C32_LethalAfterStatChange ==
  \A eff \in StatChanges :
    LET post == resolveEffect(S, 0, NoId, eff, <<>>)
        died == {id \in Changed(eff) : post.cards[id].zone # "BF"}
        saved == {id \in Changed(eff) :
                    /\ post.cards[id].zone = "BF" /\ HpLeft(post, id) <= lethalAt
                    /\ ~hasKeyword(cards[id], "Indestructible")}
    IN /\ Cardinality(saved) <= TotalOf(post.replUseGame) - TotalOf(replUseGame)
       /\ \A id \in Changed(eff) \ saved :
            LET name == cards[id].card.name
            IN IF HpLeft(post, id) > lethalAt
               THEN post.cards[id].zone = "BF"
               ELSE IF hasKeyword(cards[id], "Indestructible")
               THEN /\ post.cards[id].zone = "BF"
                    /\ LogCount(post.log, "is indestructible and survives lethal change",
                                name)
                         > LogCount(log, "is indestructible and survives lethal change",
                                    name)
               ELSE /\ post.cards[id].zone = "GY"
                    /\ Len(replacementsForSubject(S, "WouldDie", id)) = 0
                       \/ TotalOf(post.replUseGame) > TotalOf(replUseGame)
                    /\ Contains(post.players[cards[id].owner].graveyard, id)
                    /\ ~Contains(post.players[cards[id].owner].battlefield, id)
                    /\ LogCount(post.log, "dies", name) = LogCount(log, "dies", name) + 1
       /\ \A pid \in {0, 1} :
            Get(post.eventsTurn, <<"UnitDied", pid>>)
              = Get(eventsTurn, <<"UnitDied", pid>>)
                + Cardinality({id \in died : cards[id].owner = pid})

(* a stat change has destroyed an undamaged unit, a WouldDie replacement   *)
(* has saved another, and an Indestructible unit has survived a lethal one *)
C32_Witness ==
  /\ TotalOf(replUseGame) = 1
  /\ \E id \in DOMAIN cards :
       /\ cards[id].zone = "GY" /\ cards[id].damage = 0
       /\ LogCount(log, "dies", cards[id].card.name) = 1
  /\ \E id \in DOMAIN cards :
       /\ cards[id].zone = "BF" /\ hasKeyword(cards[id], "Indestructible")
       /\ LogCount(log, "is indestructible and survives lethal change",
                   cards[id].card.name) >= 1

(* chosen-target lists for DealDamage 1 on one unit of the opponent: the   *)
(* list of the pool, and every pair of an artifact and a unit of player 0, *)
(* a hand card and a unit of player 1                                      *)
ChosenLists == {<<10, 14, 18>>} \cup {<<a, b>> : a, b \in {9, 10, 14, 18}}

(* the selectors of player 0: a unit of the opponent, a token of the opponent *)
ChosenSelectors == {OppBF, Sel("OPP", "BF", 1, IsToken)}

(* legal for player 0's selector: owned by the opponent, on the battlefield, *)
(* and passing the filter                                                    *)
LegalChosen(sel, id) ==
  /\ cards[id].owner = 1 /\ cards[id].zone = "BF"
  /\ sel.filter.kind = "IsToken" => cards[id].isToken

(* C31: explicitly chosen targets are validated again at resolution. A     *)
(* chosen id of the wrong owner, outside the selector's zone or failing    *)
(* its filter is left unaffected: the effect resolves as it does for the   *)
(* legal ids alone, and when no chosen id is legal the only change is one  *)
(* 'fizzles' log line                                                      *)
C31_ChosenRevalidated ==
  \A chosen \in ChosenLists, sel \in ChosenSelectors :
    LET post == resolveEffect(S, 0, NoId, DealDamage(sel, 1), chosen)
        legal == SelectSeq(chosen, LAMBDA id : LegalChosen(sel, id))
    IN /\ \A i \in 1..Len(chosen) :
            ~LegalChosen(sel, chosen[i])
            => /\ post.cards[chosen[i]] = cards[chosen[i]]
               /\ Get(post.preventEOT, chosen[i]) = Get(preventEOT, chosen[i])
               /\ Get(post.preventPERM, chosen[i]) = Get(preventPERM, chosen[i])
       /\ IF Len(legal) = 0
          THEN post = pushLog(S, Line("fizzles", "DealDamage", 0, 0))
          ELSE /\ post = resolveEffect(S, 0, NoId, DealDamage(sel, 1), legal)
               /\ post.cards[legal[1]].damage > cards[legal[1]].damage

(* the effect has fizzled on a list without a legal id, and later it has   *)
(* destroyed the opponent's unit while the chosen unit of player 0 on the  *)
(* battlefield took no damage                                              *)
C31_Witness ==
  /\ LogCount(log, "fizzles", "DealDamage") = 1
  /\ cards[18].zone = "GY" /\ LogCount(log, "takes damage", cards[18].card.name) = 1
  /\ cards[10].zone = "BF" /\ cards[10].damage = 0

(* the cards endTurn discards from the hand of pid: the excess, oldest first *)
Excess(pid) ==
  SubSeq(players[pid].hand, 1, Max(0, Len(players[pid].hand) - maxHandSize))

(* C33: after endTurn each hand holds at most maxHandSize cards; the cards *)
(* discarded are exactly the excess, each is in its owner's graveyard by   *)
(* zone field and by list, and no other card changes zone                  *)
C33_DiscardToMax ==
  LET post == endTurn(S)
  IN /\ \A pid \in {0, 1} :
          LET h == players[pid].hand
              gone == Excess(pid)
          IN /\ Len(post.players[pid].hand) <= maxHandSize
             /\ post.players[pid].hand = SubSeq(h, Len(gone) + 1, Len(h))
             /\ post.players[pid].graveyard = players[pid].graveyard \o gone
             /\ post.players[pid].library = players[pid].library
             /\ post.players[pid].exile = players[pid].exile
             /\ post.players[pid].battlefield = players[pid].battlefield
             /\ \A i \in 1..Len(gone) :
                  /\ post.cards[gone[i]].zone = "GY"
                  /\ post.cards[gone[i]].owner = pid
     /\ \A id \in DOMAIN cards :
          (\A pid \in {0, 1} : ~Contains(Excess(pid), id))
          => post.cards[id].zone = cards[id].zone

(* a hand of more than maxHandSize cards has been discarded down at the    *)
(* end of the turn                                                         *)
C33_Witness ==
  /\ turn.number = 2
  /\ Len(players[0].hand) = maxHandSize
  /\ Len(players[0].graveyard) = 2
  /\ LogCount(log, "discards down to max hand", PName(0)) = 2

====
